---- MODULE Spec2Model ----
(***************************************************************************)
(* Model of the replication core of node-datastore:                        *)
(*   - DataStore.save               (node-datastore/lib/Index.js)          *)
(*   - DataStoreItem.status         (node-datastore/lib/DataStoreItem.js)  *)
(*   - FileSystemIndex              (unnamed/part_001)                     *)
(*   - FileSystemDevice.put / getId (node-datastore-fs/lib/...)            *)
(*   - NetworkDevice.getId          (node-datastore-p2p/lib/...)           *)
(*                                                                         *)
(* Every asynchronous completion (stream end, fs.writeFile completion,     *)
(* write stream close/error) is one action: between two suspensions the    *)
(* code runs atomically on node's single thread.                           *)
(***************************************************************************)
EXTENDS Integers, Sequences, FiniteSets, TLC

\* ------------------------------------------------------------------ bounds
NumSaves == 2
NumDevices == 2

NumCalls == 2
NumPeers == 2
MaxDeliveries == 2

Saves == 1..NumSaves
Devices == 1..NumDevices
Calls == 1..NumCalls
Peers == 1..NumPeers

\* ------------------------------------------------------------ value spaces
Null == "null"
Undefined == "undefined"

\* Contents of the streams handed to save and the namespaces used.
Contents == {"S"}
Namespaces == {Null, "a"}
Metadatas == {"m1", "m2"}

\* Device ids: FileSystemDevice.js:15 and NetworkDevice.js:23.
FS_DEVICE_ID == "FileSystemDevice"
P2P_DEVICE_ID == "P2PDevice"
DeviceIds == {FS_DEVICE_ID, P2P_DEVICE_ID}

\* Errors handed to callbacks.
WRITE_ERROR == "index write error"
PUT_ERROR == "stream error"
SEND_ERROR == "Item could not be sent to some devices"

\* crypto.createHash("sha256") ... digest("hex"): injective on Contents.
sha256(content) == "h" \o content

\* Mutant: the namespace is dropped from the id.
composeId_hashOnly(id, namespace) == id

\* composeId: the namespace is appended only when it is truthy.
composeId(id, namespace) ==
  IF namespace # Null /\ namespace # "" THEN id \o "_" \o namespace ELSE id

Ids == {composeId(sha256(c), n) : c \in Contents, n \in Namespaces}

\* A status entry as written by DataStoreItem.status(device, code, message).
NoStatus == [code |-> 0, message |-> Undefined]
StatusEntry(code, message) == [code |-> code, message |-> message]
EmptyStatus == [k \in DeviceIds |-> NoStatus]

\* An entry of index.json.
NoEntry == [id |-> Null, metadata |-> Null, status |-> EmptyStatus]

VARIABLES
  errorHandler, \* options.errorHandler is configured
  devices,      \* the device list of the store: position -> device id
  pc,           \* position of each save call
  namespace,    \* namespace argument of each save
  metadata,     \* metadata argument of each save
  itemId,       \* id computed by generateId
  spool,        \* the temporary swap file of the save exists
  index,        \* FileSystemIndex's in-memory map: id -> owning createItem call
  status,       \* status object of the entry created by each createItem call
  file,         \* content of index.json
  snap,         \* JSON.stringify(index) handed to fs.writeFile by each call
  createResult, \* outcome of index.createItem as seen by save
  put,          \* state of each device.put of each save
  finalCalled,  \* async.parallel already called its final callback
  hasError,     \* local variable hasError of save
  callbacks,    \* invocations of the save callback
  handlerCalls  \* invocations of options.errorHandler

\* State of the identity computation (composeId applied to two calls).
VARIABLES
  idCalls       \* per call: content, namespace and the id generateId produced

\* State of DataStore.get.
VARIABLES
  getPc,        \* position of the get call
  getItemId,    \* id handed to index.getItem
  ping,         \* per device: answer of device.ping for this request
  exists,       \* per device: answer of device.exists for this request
  deviceGets,   \* devices on which device.get was invoked
  getCallbacks  \* invocations of the get callback

\* State of the peer-to-peer layer: one local node and its peers.
VARIABLES
  networkMap,   \* peers of the "__p2p__" entry of the local index
  localIndex,   \* in-memory index of the local node: id -> entry
  peerIndex,    \* in-memory index of each peer
  netPc,        \* position of each call made on the local node
  netOp,        \* operation, id and metadata of each call
  netCallbacks, \* invocations of the callback of each call
  sent,         \* messages handed to NetworkManager.send
  targets,      \* per message: message.targets, the nodes it is sent to
  done,         \* the flag `done` of the broadcast of each message
  peerRequests, \* NetworkManager's table: peer -> keys of its transport
  link,         \* per message and target: progress of the request datagram
  response,     \* per message and target: the response the peer sent
  deliveries,   \* per message and target: response datagrams handled
  events,       \* per message: events emitted per peer, first responder
  bcCalls,      \* invocations of the callback handed to the broadcast
  crashed       \* an exception reached the event loop of the local node

\* Content held by the devices of the peer-to-peer layer.
VARIABLES
  localFiles,   \* ids whose file exists in the local device's directory
  peerFiles     \* per peer: ids whose file exists in the peer's device

\* State of the Swarm of NetworkDataStore.
VARIABLES
  peerMap,      \* keys of Swarm's peerMap
  peerDir,      \* names of the descriptor files in the peers directory
  swarmCalls    \* the join and leave calls made on the data store, in order

\* State of the calls that maintain the network map.
VARIABLES
  mapOp         \* per peer: the last of join and leave called with it

\* State of the message server and of the sends of NetworkManager.
VARIABLES
  messageListeners, \* namespace -> stack of handler objects, if registered
  srvTable,     \* peerRequests: pairs of a peer and a key of its transport
  srvListeners, \* the pending message has listeners for its events
  srvReceived,  \* datagrams the socket has delivered, in order
  srvInvoked,   \* handler invocations, in order
  wire,         \* datagrams handed to send(), with the timer of each
  srvEvents,    \* events emitted on the pending message
  srvReports,   \* errors handed to the listeners of a sent message
  srvFailure    \* the exception that reached the event loop, if any

\* State of the HTTP servers NetworkManager.createHttpServer starts.
VARIABLES
  busyPorts,    \* TCP ports other processes of the machine listen on
  httpPc,       \* per call: where createHttpServer and its server are
  httpPort,     \* per call: the port randomPort chose
  httpMapped,   \* per call: whether Gateway.openPort mapped the port
  httpCallbacks \* per call: the (err, port) pairs handed to the callback

\* State of the puts of a FileSystemDevice.
VARIABLES
  fsPc,         \* per put: where the pipe into the target file is
  fsStatus,     \* per put: the status of the item for the device
  fsCallbacks   \* per put: the (err, item) pairs handed to the callback

\* State of the descriptor of the local peer of a Swarm.
VARIABLES
  localFile,    \* the content of the file peers/__local__ of the directory
  localNode,    \* peerMap["__local__"] of the running process
  uuids,        \* how many ids uuid.v4 has generated
  runs          \* the local node of each construction, in order

\* State of a Gateway instance and of the uPnP device it talks to.
VARIABLES
  gwNamespace,  \* NAMESPACE of the instance
  gwAddresses,  \* getLocalAddresses(): the non-loopback IPv4 addresses
  gwTable,      \* the port mappings the device holds, by index
  gwOps,        \* how many operations have been called
  gwOp,         \* the operation called last
  gwPc,         \* what the operation waits for
  gwAddrQueue,  \* openPort: `addresses`, the addresses still to map
  gwCloseQueue, \* closePort: `mappings`, the mappings still to delete
  gwEntries,    \* listOpenPorts: `entries`
  gwRequests,   \* the SOAP requests of the operation, in order
  gwAnswers,    \* how each exchange of the operation went
  gwCallbacks,  \* the (err, entries) pairs handed to the callback
  gwFailure     \* the exception that reached the event loop, if any

\* State of Gateway.ready.
VARIABLES
  rdTree,       \* the device description the gateway serves
  rdPc,         \* where initializeGateway is
  rdCallbacks,  \* the errors handed to the callback of ready
  rdControlUrl  \* addressInfo.path

saveVars == <<errorHandler, devices, pc, namespace, metadata, itemId, spool,
              index, status, file, snap, createResult, put, finalCalled,
              hasError, callbacks, handlerCalls>>
idVars == <<idCalls>>
getVars == <<getPc, getItemId, ping, exists, deviceGets, getCallbacks>>

netVars == <<networkMap, localIndex, peerIndex, netPc, netOp, netCallbacks,
             sent, targets, done, peerRequests, link, response, deliveries, events,
             bcCalls, crashed>>

devVars == <<localFiles, peerFiles>>

swarmVars == <<peerMap, peerDir, swarmCalls>>

\* The state of the components modelled on their own.
mapVars == <<mapOp>>

srvVars == <<messageListeners, srvTable, srvListeners, srvReceived,
             srvInvoked, wire, srvEvents, srvReports, srvFailure>>

httpVars == <<busyPorts, httpPc, httpPort, httpMapped, httpCallbacks>>

fsVars == <<fsPc, fsStatus, fsCallbacks>>

\* The components modelled after the HTTP server.
locVars == <<localFile, localNode, uuids, runs>>

gwVars == <<gwNamespace, gwAddresses, gwTable, gwOps, gwOp, gwPc, gwAddrQueue,
            gwCloseQueue, gwEntries, gwRequests, gwAnswers, gwCallbacks,
            gwFailure>>

rdVars == <<rdTree, rdPc, rdCallbacks, rdControlUrl>>

restVars == <<fsVars, locVars, gwVars, rdVars>>

auxVars == <<httpVars, restVars>>

\* Everything but restVars.
baseVars == <<saveVars, idVars, getVars, netVars, devVars, swarmVars, mapVars,
              srvVars, httpVars>>

\* Everything a put on a FileSystemDevice leaves alone; everything the
\* construction of a Swarm leaves alone.
fsOthers == <<baseVars, locVars, gwVars, rdVars>>
locOthers == <<baseVars, fsVars, gwVars, rdVars>>

\* Everything the operations of a Gateway leave alone; everything
\* Gateway.ready leaves alone.
gwOthers == <<baseVars, fsVars, locVars, rdVars>>
rdOthers == <<baseVars, fsVars, locVars, gwVars>>

extVars == <<swarmVars, mapVars, srvVars, auxVars>>

\* Everything DataStore.save leaves alone.
nonSaveVars == <<idVars, getVars, netVars, devVars, extVars>>

vars == <<saveVars, nonSaveVars>>

\* ------------------------------------------------------------------ helpers

\* Device.getId of the device at position d of the list.
getId(d) == devices[d]

\* DataStoreItem.status(device, code, message): sets the entry for the
\* device's id in the item's status object.
SetStatus(st, d, code, message) ==
  [st EXCEPT ![getId(d)] = StatusEntry(code, message)]

\* Mutant: createItem that does not store the entry.
InsertItem_skipped(idx, id, s) == idx

\* index[id] = item in FileSystemIndex.createItem.
InsertItem(idx, id, s) == [idx EXCEPT ![id] = s]

\* JSON.stringify(index) in saveIndex: a copy of every entry as it is now.
Stringify(idx, md, st) ==
  [i \in Ids |-> IF idx[i] = 0 THEN NoEntry
                 ELSE [id |-> i, metadata |-> md[idx[i]], status |-> st[idx[i]]]]

\* FileSystemIndex.getItem(id) succeeds.
HasItem(id) == index[id] # 0

\* The index a fresh FileSystemIndex(baseDir) loads: JSON.parse of the file.
LoadIndex == file

\* Mutant: no results are handed over when a task reported an error.
ParallelResults_noneOnError(err) == IF err # Null THEN Undefined ELSE "array"

\* What async.parallel hands to its final callback as results. The library
\* collects the task results through async.map, whose completion is
\* callback(err, results): the results array is passed also when a task
\* reported an error, so `!results` in save is false on every call.
ParallelResults(err) == "array"

\* Mutant: the early return on an index error is missing.
AbortSave_never(err) == FALSE

\* save aborts when index.createItem reports an error.
AbortSave(err) == err # Null

\* ------------------------------------------------- peer-to-peer value spaces
\* Ids and metadata of the entries of the network index.
NetIds == {"foo"}
LocalMetadatas == {"m1"}
PeerMetadatas == {"m2"}

\* An index entry: metadata plus the `nodes` the network index adds to it.
NoItem == [present |-> FALSE, metadata |-> Null, nodes |-> <<>>]
Item(md, nodes) == [present |-> TRUE, metadata |-> md, nodes |-> nodes]

\* uuid of a peer (Peer.js) and of the request of a message (createMessage).
PeerId(p) == <<"peer", p>>

\* The key "__local__" of the network map, which holds the local node; the
\* peers are numbered from 1.
LOCAL_NODE_ENTRY == 0
Msgs == {"query", "announce", "fetch"} \X Calls
CallOf(m) == m[2]
PartOf(m) == m[1]

\* The events emitted on a message: how many per responding peer (0 counts
\* the events without peer), and the peer of the first "response" event.
NoEvents == [n |-> [p \in Peers \cup {0} |-> 0], first |-> 0]
Emitted(ev, type, peer) ==
  [n |-> [ev.n EXCEPT ![peer] = @ + 1],
   first |-> IF type = "response" /\ ev.first = 0 THEN peer ELSE ev.first]

\* The response slot of a target that has not answered.
NoResponse == [error |-> Undefined, data |-> NoItem]

\* No call has been made on the local node.
NetStart ==
  /\ networkMap = {LOCAL_NODE_ENTRY}
  /\ localIndex = [i \in NetIds |-> NoItem]
  /\ peerIndex = [p \in Peers |-> [i \in NetIds |-> NoItem]]
  /\ netPc = [c \in Calls |-> "idle"]
  /\ netOp = [c \in Calls |-> [kind |-> Null, id |-> Null, item |-> NoItem]]
  /\ netCallbacks = [c \in Calls |-> <<>>]
  /\ sent = {}
  /\ targets = [m \in Msgs |-> {}]
  /\ done = [m \in Msgs |-> FALSE]
  /\ peerRequests = [p \in Peers |-> {}]
  /\ link = [m \in Msgs |-> [p \in Peers |-> "none"]]
  /\ response = [m \in Msgs |-> [p \in Peers |-> NoResponse]]
  /\ deliveries = [m \in Msgs |-> [p \in Peers |-> 0]]
  /\ events = [m \in Msgs |-> NoEvents]
  /\ bcCalls = [m \in Msgs |-> <<>>]
  /\ crashed = FALSE

\* The key of the local machine's peer in Swarm's peerMap.
LOCAL_PEER_ENTRY == <<"__local__", 0>>

\* A swarm that holds the local peer only and was never called.
SwarmStart ==
  /\ peerMap = {LOCAL_PEER_ENTRY}
  /\ peerDir = {LOCAL_PEER_ENTRY}
  /\ swarmCalls = <<>>

\* The components modelled on their own are in their initial state.
\* Neither join nor leave of the index was called.
MapStart == mapOp = [p \in Peers |-> "none"]

\* A handler object: the message types it has a handler for.
NoListeners == [defined |-> FALSE, stack |-> <<>>]
Listeners(stack) == [defined |-> TRUE, stack |-> stack]
SrvNamespaces == {"p2p:index", "p2p:other"}

\* A network manager without handlers that neither received nor sent.
SrvStart ==
  /\ messageListeners = [ns \in SrvNamespaces |-> NoListeners]
  /\ srvTable = {}
  /\ srvListeners = FALSE
  /\ srvReceived = <<>>
  /\ srvInvoked = <<>>
  /\ wire = <<>>
  /\ srvEvents = <<>>
  /\ srvReports = <<>>
  /\ srvFailure = Null

\* No HTTP server has been asked for.
MaxHttpCalls == 2
HttpCalls == 1..MaxHttpCalls
NoPort == 0
HttpStart ==
  /\ busyPorts = {}
  /\ httpPc = [c \in HttpCalls |-> "idle"]
  /\ httpPort = [c \in HttpCalls |-> NoPort]
  /\ httpMapped = [c \in HttpCalls |-> Null]
  /\ httpCallbacks = [c \in HttpCalls |-> <<>>]

\* No put has been called on the device.
MaxPuts == 2
PutCalls == 1..MaxPuts
FsStart ==
  /\ fsPc = [p \in PutCalls |-> "idle"]
  /\ fsStatus = [p \in PutCalls |-> NoStatus]
  /\ fsCallbacks = [p \in PutCalls |-> <<>>]

\* No Swarm has been constructed on the directory: it holds no descriptor.
NoUuid == 0
NoPeer == [present |-> FALSE, id |-> NoUuid, port |-> NoPort, address |-> Null]
LocStart ==
  /\ localFile = NoPeer
  /\ localNode = NoPeer
  /\ uuids = 0
  /\ runs = <<>>

\* A Gateway with the default namespace on a machine without network
\* interface; no operation has been called.
GW_DEFAULT_NAMESPACE == "node:Gateway"
NoGwOp == [kind |-> "none", protocol |-> Null, port |-> 0]
GwStart ==
  /\ gwNamespace = GW_DEFAULT_NAMESPACE
  /\ gwAddresses = <<>>
  /\ gwTable = <<>>
  /\ gwOps = 0
  /\ gwOp = NoGwOp
  /\ gwPc = "idle"
  /\ gwAddrQueue = <<>>
  /\ gwCloseQueue = <<>>
  /\ gwEntries = <<>>
  /\ gwRequests = <<>>
  /\ gwAnswers = <<>>
  /\ gwCallbacks = <<>>
  /\ gwFailure = Null

\* An element of an XML document: name, text and child elements.
XmlNode(name, val, children) ==
  [name |-> name, val |-> val, children |-> children]

\* ready has not been called.
RdStart ==
  /\ rdTree = XmlNode("root", "", <<>>)
  /\ rdPc = "idle"
  /\ rdCallbacks = <<>>
  /\ rdControlUrl = Null

RestStart == FsStart /\ LocStart /\ GwStart /\ RdStart

AuxStart == HttpStart /\ RestStart

ExtStart ==
  /\ SwarmStart
  /\ MapStart
  /\ SrvStart
  /\ AuxStart

\* The device directories are empty.
DevStart ==
  /\ localFiles = {}
  /\ peerFiles = [p \in Peers |-> {}]

\* No save has been called.
SaveStart ==
  /\ pc = [s \in Saves |-> "idle"]
  /\ namespace = [s \in Saves |-> Null]
  /\ metadata = [s \in Saves |-> Null]
  /\ itemId = [s \in Saves |-> Null]
  /\ spool = [s \in Saves |-> FALSE]
  /\ status = [s \in Saves |-> EmptyStatus]
  /\ file = [i \in Ids |-> NoEntry]
  /\ snap = [s \in Saves |-> [i \in Ids |-> NoEntry]]
  /\ createResult = [s \in Saves |-> "none"]
  /\ put = [s \in Saves |-> [d \in Devices |-> "none"]]
  /\ finalCalled = [s \in Saves |-> FALSE]
  /\ hasError = [s \in Saves |-> FALSE]
  /\ callbacks = [s \in Saves |-> <<>>]
  /\ handlerCalls = [s \in Saves |-> <<>>]

\* No id has been computed.
IdCallIds == {1, 2}
IdStart ==
  idCalls = [k \in IdCallIds |->
               [content |-> "S", namespace |-> Null, id |-> Undefined]]

\* DataStore.get has not been called.
GetStart ==
  /\ getPc = "idle"
  /\ getItemId = Null
  /\ ping = [d \in Devices |-> "none"]
  /\ exists = [d \in Devices |-> "none"]
  /\ deviceGets = {}
  /\ getCallbacks = <<>>

Init ==
  /\ errorHandler \in BOOLEAN
  /\ devices \in [Devices -> DeviceIds]
  /\ index = [i \in Ids |-> 0]
  /\ SaveStart
  /\ IdStart
  /\ GetStart
  /\ NetStart
  /\ DevStart
  /\ ExtStart

\* DataStore.save is called: generateId opens the swap file and pipes the
\* stream through the hasher. Calls are numbered in the order they are made.
Save(s, content, ns, md) ==
  /\ pc[s] = "idle"
  /\ \A t \in Saves : t < s => pc[t] # "idle"
  /\ pc' = [pc EXCEPT ![s] = "reading"]
  /\ namespace' = [namespace EXCEPT ![s] = ns]
  /\ metadata' = [metadata EXCEPT ![s] = md]
  /\ itemId' = [itemId EXCEPT ![s] = composeId(sha256(content), ns)]
  /\ spool' = [spool EXCEPT ![s] = TRUE]
  /\ UNCHANGED <<errorHandler, devices, index, status, file, snap,
                 createResult, put, finalCalled, hasError, callbacks,
                 handlerCalls>>
  /\ UNCHANGED nonSaveVars

\* The stream ends: generateId hands (id, tempFile) to save, which calls
\* index.createItem; createItem inserts the entry and starts saveIndex.
StreamEnd(s) ==
  /\ pc[s] = "reading"
  /\ pc' = [pc EXCEPT ![s] = "creating"]
  /\ index' = InsertItem(index, itemId[s], s)
  /\ snap' = [snap EXCEPT ![s] = Stringify(index', metadata, status)]
  /\ createResult' = [createResult EXCEPT ![s] = "pending"]
  /\ UNCHANGED <<errorHandler, devices, namespace, metadata, itemId, spool,
                 status, file, put, finalCalled, hasError, callbacks,
                 handlerCalls>>
  /\ UNCHANGED nonSaveVars

\* fs.writeFile of saveIndex completes; createItem's callback runs the body
\* of save: abort on error, else start device.put on every device.
WriteFileDone(s, err) ==
  /\ pc[s] = "creating"
  /\ file' = IF err = Null THEN snap[s] ELSE file
  /\ createResult' = [createResult EXCEPT ![s] =
                        IF err = Null THEN "ok" ELSE "error"]
  /\ IF AbortSave(err)
       THEN /\ callbacks' = [callbacks EXCEPT ![s] =
                               Append(@, [err |-> err, item |-> Undefined])]
            /\ pc' = [pc EXCEPT ![s] = "resolved"]
            /\ put' = put
       ELSE /\ put' = [put EXCEPT ![s] = [d \in Devices |-> "running"]]
            /\ pc' = [pc EXCEPT ![s] = "sending"]
            /\ callbacks' = callbacks
  /\ snap' = [snap EXCEPT ![s] = [i \in Ids |-> NoEntry]]
  /\ UNCHANGED <<errorHandler, devices, namespace, metadata, itemId, spool,
                 index, status, finalCalled, hasError, handlerCalls>>
  /\ UNCHANGED nonSaveVars

\* The final callback save gives to async.parallel.
ParallelCallback(s, err) ==
  IF ParallelResults(err) = Undefined /\ err # Null /\ errorHandler
    THEN /\ hasError' = [hasError EXCEPT ![s] = TRUE]
         /\ handlerCalls' = [handlerCalls EXCEPT ![s] =
              Append(@, [err |-> err, id |-> itemId[s],
                         namespace |-> namespace[s], type |-> "save"])]
         /\ pc' = [pc EXCEPT ![s] = "abandoned"]
         /\ UNCHANGED <<spool, callbacks>>
    ELSE /\ spool' = [spool EXCEPT ![s] = FALSE]
         /\ callbacks' = [callbacks EXCEPT ![s] =
              Append(@, [err |-> IF hasError[s] THEN SEND_ERROR ELSE Null,
                         item |-> s])]
         /\ pc' = [pc EXCEPT ![s] = "resolved"]
         /\ UNCHANGED <<hasError, handlerCalls>>

\* A device.put completes: FileSystemDevice.put records the status and calls
\* back; async.parallel calls its final callback on the first error or when
\* every task has completed, and never again afterwards. A put that is still
\* running when the save resolves completes later and still records its status.
PutDone(s, d, err) ==
  /\ put[s][d] = "running"
  /\ put' = [put EXCEPT ![s][d] = IF err = Null THEN "ok" ELSE "failed"]
  /\ status' = [status EXCEPT ![s] =
                  IF err = Null THEN SetStatus(@, d, 200, Undefined)
                  ELSE SetStatus(@, d, 500, err)]
  /\ IF finalCalled[s]
       THEN UNCHANGED <<finalCalled, pc, spool, callbacks, hasError,
                        handlerCalls>>
       ELSE IF err # Null \/ \A e \in Devices : put'[s][e] = "ok"
              THEN /\ finalCalled' = [finalCalled EXCEPT ![s] = TRUE]
                   /\ ParallelCallback(s, err)
              ELSE UNCHANGED <<finalCalled, pc, spool, callbacks, hasError,
                               handlerCalls>>
  /\ UNCHANGED <<errorHandler, devices, namespace, metadata, itemId, index,
                 file, snap, createResult>>
  /\ UNCHANGED nonSaveVars

Next ==
  \/ \E s \in Saves, c \in Contents, n \in Namespaces, m \in Metadatas :
       Save(s, c, n, m)
  \/ \E s \in Saves : StreamEnd(s)
  \/ \E s \in Saves, err \in {Null, WRITE_ERROR} : WriteFileDone(s, err)
  \/ \E s \in Saves, d \in Devices, err \in {Null, PUT_ERROR} : PutDone(s, d, err)

Spec == Init /\ [][Next]_vars

\* I/O that was started completes: a finite stream ends, fs.writeFile calls
\* back, a write stream closes or fails.
Fairness ==
  \A s \in Saves :
    /\ WF_vars(StreamEnd(s))
    /\ WF_vars(\E err \in {Null, WRITE_ERROR} : WriteFileDone(s, err))
    /\ \A d \in Devices : WF_vars(\E err \in {Null, PUT_ERROR} : PutDone(s, d, err))

FairSpec == Spec /\ Fairness

\* ------------------------------------------------------------------ claims

\* The entry getItem(i) reads from the in-memory index.
Entry(i) == Stringify(index, metadata, status)[i]

\* Every device.put of save s has completed.
AllPutsDone(s) == \A d \in Devices : put[s][d] \in {"ok", "failed"}

\* C1: with an error handler configured, a save whose createItem succeeded
\* and that has resolved called the handler once with (err, id, namespace,
\* "save") and its callback with (Error("Item could not be sent to some
\* devices"), item) if some device.put failed, and its callback with
\* (null, item) if none failed.
C1_ErrorHandlerOnFailure ==
  \A s \in Saves :
    (errorHandler /\ createResult[s] = "ok" /\ pc[s] = "resolved") =>
      IF \E d \in Devices : put[s][d] = "failed"
        THEN /\ handlerCalls[s] = <<[err |-> PUT_ERROR, id |-> itemId[s],
                                     namespace |-> namespace[s],
                                     type |-> "save"]>>
             /\ callbacks[s] = <<[err |-> SEND_ERROR, item |-> s]>>
        ELSE callbacks[s] = <<[err |-> Null, item |-> s]>>

\* C2: the save callback is never invoked more than once, and every save
\* that was called eventually has invoked it exactly once.
C2_CallbackExactlyOnce ==
  /\ [](\A s \in Saves : Len(callbacks[s]) <= 1)
  /\ \A s \in Saves : (pc[s] # "idle") ~> (Len(callbacks[s]) = 1)

\* C2 witness: a save resolved although one of its puts failed.
C2_Witness ==
  \E s \in Saves : /\ Len(callbacks[s]) = 1
                   /\ \E d \in Devices : put[s][d] = "failed"
                   /\ \E d \in Devices : put[s][d] = "ok"

\* C3: once the save callback has been invoked, the spool file of that save
\* does not exist.
C3_SpoolCleanup ==
  \A s \in Saves : Len(callbacks[s]) >= 1 => ~spool[s]

\* C4: the step that unlinks the spool of a save leaves no device.put of
\* that save running.
C4_UnlinkAfterAllPuts ==
  [][\A s \in Saves : (spool[s] /\ ~spool'[s]) => AllPutsDone(s)']_vars

\* C5: a device.put of a save has started only if its createItem completed
\* without error; if createItem reported an error no device.put was started
\* and the save callback received exactly that error.
C5_CreateBeforePut ==
  \A s \in Saves :
    /\ (\E d \in Devices : put[s][d] # "none") => createResult[s] = "ok"
    /\ createResult[s] = "error" =>
         /\ \A d \in Devices : put[s][d] = "none"
         /\ callbacks[s] = <<[err |-> WRITE_ERROR, item |-> Undefined]>>

\* C5 witness: a save was aborted by an index error while another save's
\* createItem succeeded and its puts were started.
C5_Witness ==
  \E s, t \in Saves :
    /\ createResult[s] = "error" /\ pc[s] = "resolved"
    /\ createResult[t] = "ok" /\ \A d \in Devices : put[t][d] # "none"

\* C6: when a save whose createItem succeeded has resolved, the item has a
\* status entry with code 200 or 500 for the id of every device.
C6_StatusComplete ==
  \A s \in Saves :
    (createResult[s] = "ok" /\ pc[s] = "resolved") =>
      \A d \in Devices : status[s][getId(d)].code \in {200, 500}

\* C7: in a store with an error handler, after a save whose put succeeded on
\* one file-system device and failed on another, the status of the good
\* device has code 200, the status of the bad device has code 500, and the
\* error handler was invoked once, with type "save".
C7_PartialFailureTwoLocal ==
  \A s \in Saves : \A good, bad \in Devices :
    ( /\ errorHandler
      /\ getId(good) = FS_DEVICE_ID /\ getId(bad) = FS_DEVICE_ID
      /\ pc[s] = "resolved" /\ AllPutsDone(s)
      /\ put[s][good] = "ok" /\ put[s][bad] = "failed" ) =>
        /\ status[s][getId(good)].code = 200
        /\ status[s][getId(bad)].code = 500
        /\ Len(handlerCalls[s]) = 1
        /\ handlerCalls[s][1].type = "save"

\* C8: from the moment createItem has succeeded inside a save, getItem of the
\* save's id succeeds, whatever the devices do.
C8_ItemIndexed ==
  \A s \in Saves : createResult[s] = "ok" => HasItem(itemId[s])

\* C8 witness: a save has resolved after every device.put failed.
C8_Witness ==
  \E s \in Saves : /\ pc[s] = "resolved" /\ createResult[s] = "ok"
                   /\ \A d \in Devices : put[s][d] = "failed"

\* C9: a createItem for an id already in the index leaves the existing
\* entry (metadata and status) unchanged.
C9_NoReplace ==
  [][\A s \in Saves :
       (pc[s] = "reading" /\ pc'[s] = "creating" /\ HasItem(itemId[s])) =>
         Entry(itemId[s])' = Entry(itemId[s])]_vars

\* C10: once a createItem callback has fired without error, an index loaded
\* from the same base directory contains the item.
C10_Durable ==
  \A s \in Saves : createResult[s] = "ok" => LoadIndex[itemId[s]] # NoEntry

\* ================================================================ identity
\* generateId (Index.js:155-176) hashes the stream and hands
\* composeId(hash, namespace) to save. The id is a pure function of the
\* content and the namespace; it is applied here to two calls whose
\* arguments range over IdContents and IdNamespaces ("" is the empty string,
\* Null an absent namespace).
IdContents == {"S", "T"}
IdNamespaces == {Null, "", "a", "b"}

IdInit ==
  /\ errorHandler = FALSE
  /\ devices = [d \in Devices |-> FS_DEVICE_ID]
  /\ index = [i \in Ids |-> 0]
  /\ SaveStart
  /\ GetStart
  /\ NetStart
  /\ DevStart
  /\ ExtStart
  /\ idCalls \in [IdCallIds ->
                   [content : IdContents, namespace : IdNamespaces,
                    id : {Undefined}]]

\* generateId's "end" handler: callback(composeId(hash.digest("hex"), ns)).
GenerateId(k) ==
  /\ idCalls[k].id = Undefined
  /\ idCalls' = [idCalls EXCEPT ![k].id =
                   composeId(sha256(idCalls[k].content), idCalls[k].namespace)]
  /\ UNCHANGED <<saveVars, getVars, netVars, devVars, extVars>>

IdNext == \E k \in IdCallIds : GenerateId(k)

IdSpec == IdInit /\ [][IdNext]_vars

\* The id has been produced for call k.
IdDone(k) == idCalls[k].id # Undefined

\* A namespace as composeId sees it: the empty string is falsy, like null.
EffectiveNamespace(ns) == IF ns = "" THEN Null ELSE ns

\* C11 (as stated): the id is hash(S) for an absent namespace and
\* hash(S) + "_" + N for every string N, the empty string included; two ids
\* of the same content differ exactly when the namespaces differ.
C11_Identity ==
  /\ \A k \in IdCallIds : IdDone(k) =>
       idCalls[k].id =
         IF idCalls[k].namespace = Null
           THEN sha256(idCalls[k].content)
           ELSE sha256(idCalls[k].content) \o "_" \o idCalls[k].namespace
  /\ \A j, k \in IdCallIds :
       (IdDone(j) /\ IdDone(k) /\ idCalls[j].content = idCalls[k].content) =>
         ((idCalls[j].id # idCalls[k].id) <=>
          (idCalls[j].namespace # idCalls[k].namespace))

\* C11 (amended): the id is hash(S) when the namespace is absent or the
\* empty string and hash(S) + "_" + N when N is a non-empty string; two ids
\* of the same content differ exactly when the namespaces differ, the empty
\* string counting as absent.
C11_IdentityNonEmpty ==
  /\ \A k \in IdCallIds : IdDone(k) =>
       idCalls[k].id =
         IF idCalls[k].namespace \in {Null, ""}
           THEN sha256(idCalls[k].content)
           ELSE sha256(idCalls[k].content) \o "_" \o idCalls[k].namespace
  /\ \A j, k \in IdCallIds :
       (IdDone(j) /\ IdDone(k) /\ idCalls[j].content = idCalls[k].content) =>
         ((idCalls[j].id # idCalls[k].id) <=>
          (EffectiveNamespace(idCalls[j].namespace) #
             EffectiveNamespace(idCalls[k].namespace)))

\* Same content saved once without namespace and once with the empty string
\* (equal ids), and same content saved under "a" and "b" (different ids).
C11_Witness ==
  /\ IdDone(1) /\ IdDone(2)
  /\ idCalls[1].content = idCalls[2].content
  /\ \/ /\ idCalls[1].namespace = Null /\ idCalls[2].namespace = ""
        /\ idCalls[1].id = idCalls[2].id
     \/ /\ idCalls[1].namespace = "a" /\ idCalls[2].namespace = "b"
        /\ idCalls[1].id # idCalls[2].id

\* =========================================================== DataStore.get
\* DataStore.get (Index.js:241-264): index.getItem, then async.detect over
\* the devices with ping and exists as the truth test, then device.get on
\* the detected device. The answers of the devices are inputs.
NOT_FOUND == "Item not found in the index."
NO_DEVICE == "There's no available device to retrieve the item."

\* The index holds entries created by earlier saves.
GetInit ==
  /\ errorHandler = FALSE
  /\ devices = [d \in Devices |-> FS_DEVICE_ID]
  /\ index \in [Ids -> {0, 1}]
  /\ SaveStart
  /\ IdStart
  /\ GetStart
  /\ NetStart
  /\ DevStart
  /\ ExtStart

\* Mutant: exists is asked whatever ping answered.
AskExists_always(available) == TRUE

\* The ping callback asks device.exists only when the device is available.
AskExists(available) == available

\* The truth test of device d answered false.
Rejected(d) == ping[d] = "false" \/ exists[d] = "false"

\* The callback async.detect hands to the truth test of device d. The first
\* true answer calls the final callback with d, and get invokes d.get, which
\* hands the item to the caller (FileSystemDevice.get calls back at once);
\* when every test has answered false the final callback receives no
\* device. The final callback is called once.
DetectAnswer(d, truth) ==
  IF getPc = "detecting" /\ truth
    THEN /\ deviceGets' = deviceGets \cup {d}
         /\ getCallbacks' = Append(getCallbacks,
                                   [err |-> Null, item |-> getItemId])
         /\ getPc' = "resolved"
    ELSE IF getPc = "detecting" /\ \A e \in Devices : Rejected(e)'
      THEN /\ getCallbacks' = Append(getCallbacks,
                                     [err |-> NO_DEVICE, item |-> Undefined])
           /\ getPc' = "resolved"
           /\ deviceGets' = deviceGets
      ELSE UNCHANGED <<getPc, deviceGets, getCallbacks>>

\* DataStore.get(id, namespace, callback).
Get(id, ns) ==
  /\ getPc = "idle"
  /\ getItemId' = composeId(id, ns)
  /\ IF HasItem(getItemId')
       THEN /\ ping' = [d \in Devices |-> "pending"]
            /\ getPc' = "detecting"
            /\ getCallbacks' = getCallbacks
       ELSE /\ getCallbacks' = Append(getCallbacks,
                                      [err |-> NOT_FOUND, item |-> Undefined])
            /\ getPc' = "resolved"
            /\ ping' = ping
  /\ UNCHANGED <<exists, deviceGets, saveVars, idVars, netVars, devVars,
                 extVars>>

\* device.ping calls back.
PingAnswer(d, available) ==
  /\ ping[d] = "pending"
  /\ ping' = [ping EXCEPT ![d] = IF available THEN "true" ELSE "false"]
  /\ IF AskExists(available)
       THEN /\ exists' = [exists EXCEPT ![d] = "pending"]
            /\ UNCHANGED <<getPc, deviceGets, getCallbacks>>
       ELSE /\ exists' = exists
            /\ DetectAnswer(d, FALSE)
  /\ UNCHANGED <<getItemId, saveVars, idVars, netVars, devVars, extVars>>

\* device.exists calls back.
ExistsAnswer(d, itemExists) ==
  /\ exists[d] = "pending"
  /\ exists' = [exists EXCEPT ![d] = IF itemExists THEN "true" ELSE "false"]
  /\ ping' = ping
  /\ DetectAnswer(d, itemExists)
  /\ UNCHANGED <<getItemId, saveVars, idVars, netVars, devVars, extVars>>

GetNext ==
  \/ \E c \in Contents, n \in Namespaces : Get(sha256(c), n)
  \/ \E d \in Devices, available \in BOOLEAN : PingAnswer(d, available)
  \/ \E d \in Devices, itemExists \in BOOLEAN : ExistsAnswer(d, itemExists)

GetSpec == GetInit /\ [][GetNext]_vars

\* C12: device.get is invoked only on a device that answered ping true and
\* exists true for this request; when the index lookup fails the caller gets
\* that error and no device is pinged; when every device has been rejected
\* the caller gets the "no available device" error and device.get is invoked
\* on no device.
C12_GetOnQualifiedDevice ==
  /\ \A d \in deviceGets : ping[d] = "true" /\ exists[d] = "true"
  /\ (getPc # "idle" /\ ~HasItem(getItemId)) =>
       /\ getCallbacks = <<[err |-> NOT_FOUND, item |-> Undefined]>>
       /\ \A d \in Devices : ping[d] = "none"
       /\ deviceGets = {}
  /\ (getPc # "idle" /\ HasItem(getItemId) /\ \A d \in Devices : Rejected(d)) =>
       /\ getCallbacks = <<[err |-> NO_DEVICE, item |-> Undefined]>>
       /\ deviceGets = {}

\* The item was read from one device after another device was rejected.
C12_Witness ==
  /\ deviceGets # {}
  /\ \E d \in Devices : Rejected(d)
  /\ getCallbacks = <<[err |-> Null, item |-> getItemId]>>

\* ============================================================ NetworkIndex
\* NetworkIndex (NetworkDevice.js:937-1242) on one local node, on top of
\* NetworkManager (NetworkManager.js). The peers run the message handlers of
\* their own NetworkIndex. A datagram may never arrive, and a response
\* datagram may be handled more than once (up to MaxDeliveries times).

\* The local index is empty, any of the peers have joined the network map
\* (NetworkIndex.join) and the peers start with any index. The calls on the
\* local node are made in series, each once the one before has handed its
\* item to the caller.
NetInit ==
  /\ errorHandler = FALSE
  /\ devices = [d \in Devices |-> FS_DEVICE_ID]
  /\ index = [i \in Ids |-> 0]
  /\ SaveStart
  /\ IdStart
  /\ GetStart
  /\ DevStart
  /\ ExtStart
  /\ networkMap \in {{LOCAL_NODE_ENTRY} \cup ps : ps \in SUBSET Peers}
  /\ localIndex = [i \in NetIds |-> NoItem]
  /\ peerIndex \in [Peers -> [NetIds ->
                      {NoItem} \cup {Item(md, <<>>) : md \in PeerMetadatas}]]
  /\ netPc = [c \in Calls |-> "idle"]
  /\ netOp = [c \in Calls |-> [kind |-> Null, id |-> Null, item |-> NoItem]]
  /\ netCallbacks = [c \in Calls |-> <<>>]
  /\ sent = {}
  /\ targets = [m \in Msgs |-> {}]
  /\ done = [m \in Msgs |-> FALSE]
  /\ peerRequests = [p \in Peers |-> {}]
  /\ link = [m \in Msgs |-> [p \in Peers |-> "none"]]
  /\ response = [m \in Msgs |-> [p \in Peers |-> NoResponse]]
  /\ deliveries = [m \in Msgs |-> [p \in Peers |-> 0]]
  /\ events = [m \in Msgs |-> NoEvents]
  /\ bcCalls = [m \in Msgs |-> <<>>]
  /\ crashed = FALSE

\* getPeers: every node of the network map but "__local__".
getPeers == networkMap \ {LOCAL_NODE_ENTRY}

\* NetworkManager.send(message) of a broadcast message: per target, the
\* message is filed in the target's transport under the request id and the
\* datagram is handed to the socket with the 6 s timer armed.
Send(m) ==
  /\ sent' = sent \cup {m}
  /\ targets' = [targets EXCEPT ![m] = getPeers]
  /\ peerRequests' = [p \in Peers |->
        IF p \in getPeers THEN peerRequests[p] \cup {m} ELSE peerRequests[p]]
  /\ link' = [link EXCEPT ![m] =
        [p \in Peers |-> IF p \in getPeers THEN "sending" ELSE "none"]]

\* Mutant: the remote metadata is cached without the `nodes` extension.
RemoteItem_noNodes(data, peer) == Item(data.metadata, <<>>)

\* extend(remoteItem.metadata, {nodes: [node.id]}): the entry getItem creates
\* in the local index for the response of a peer.
RemoteItem(data, peer) == Item(data.metadata, <<peer>>)

\* Mutant: the announcement carries no metadata the peer could create.
AnnouncedItem_empty(c) == NoItem

\* {id: item.getId(), metadata: item.getMetadata()}: the data of the
\* index:createItem message of call c.
AnnouncedItem(c) == netOp[c].item

\* Mutant: the response listener of broadcast has no `done` guard.
FirstResponse_unguarded(m) == TRUE

\* The response listener of broadcast acts on the first response only.
FirstResponse(m) == ~done[m]

\* The methods of the object FileSystemDevice returns (those of Device,
\* with put, get, ping and exists overridden), which is the `base` of
\* NetworkDevice.
BaseMethods == {"getId", "put", "get", "ping", "exists"}

\* createContentStream(item, peer, serverInfo, callback) of call c. Its first
\* statement calls base.getFile(item); calling a method `base` does not have
\* throws a TypeError out of the "response" listener, and nothing catches
\* it. With the method the download from the peer would start.
createContentStream(c) ==
  IF "getFile" \in BaseMethods
    THEN /\ netPc' = [netPc EXCEPT ![c] = "downloading"]
         /\ crashed' = crashed
    ELSE /\ crashed' = TRUE
         /\ netPc' = netPc

\* message.emit(type, ...) on message m of call c, running the listeners
\* registered on the message. A query (index:getItem) has both listeners of
\* NetworkIndex.broadcast: "error" is the broadcast callback itself,
\* "response" is guarded by `done`; the callback of getItem hands an error
\* to the caller and otherwise creates the remote item in the local index.
\* An announce (index:createItem) has no listener: an "error" event without
\* listener is thrown by the emitter. A fetch (nd:get) has the listeners of
\* findItemAndWait, of the same shape as those of broadcast: an error goes
\* to the caller of NetworkDevice.get, the first response goes on to
\* createContentStream.
Emit(m, type, peer, err, data) ==
  LET c == CallOf(m) IN
  /\ events' = [events EXCEPT ![m] = Emitted(@, type, peer)]
  /\ IF PartOf(m) = "query" /\ type = "error"
       THEN /\ bcCalls' = [bcCalls EXCEPT ![m] =
                 Append(@, [err |-> err, peer |-> peer, data |-> NoItem])]
            /\ netCallbacks' = [netCallbacks EXCEPT ![c] =
                 Append(@, [err |-> err, item |-> NoItem])]
            /\ UNCHANGED <<done, localIndex, netOp, netPc, crashed>>
     ELSE IF PartOf(m) = "query" /\ type = "response" /\ FirstResponse(m)
       THEN /\ done' = [done EXCEPT ![m] = TRUE]
            /\ bcCalls' = [bcCalls EXCEPT ![m] =
                 Append(@, [err |-> Null, peer |-> peer, data |-> data])]
            /\ localIndex' = [localIndex EXCEPT ![netOp[c].id] =
                 RemoteItem(data, peer)]
            /\ netOp' = [netOp EXCEPT ![c].item = RemoteItem(data, peer)]
            /\ netPc' = [netPc EXCEPT ![c] = "creating"]
            /\ UNCHANGED <<netCallbacks, crashed>>
     ELSE IF PartOf(m) = "announce" /\ type = "error"
       THEN /\ crashed' = TRUE
            /\ UNCHANGED <<done, bcCalls, localIndex, netOp, netPc,
                           netCallbacks>>
     ELSE IF PartOf(m) = "fetch" /\ type = "error"
       THEN /\ bcCalls' = [bcCalls EXCEPT ![m] =
                 Append(@, [err |-> err, peer |-> peer, data |-> NoItem])]
            /\ netCallbacks' = [netCallbacks EXCEPT ![c] =
                 Append(@, [err |-> err, item |-> NoItem])]
            /\ UNCHANGED <<done, localIndex, netOp, netPc, crashed>>
     ELSE IF PartOf(m) = "fetch" /\ type = "response" /\ FirstResponse(m)
       THEN /\ done' = [done EXCEPT ![m] = TRUE]
            /\ bcCalls' = [bcCalls EXCEPT ![m] =
                 Append(@, [err |-> Null, peer |-> peer, data |-> data])]
            /\ createContentStream(c)
            /\ UNCHANGED <<localIndex, netOp, netCallbacks>>
     ELSE UNCHANGED <<done, bcCalls, localIndex, netOp, netPc, netCallbacks,
                      crashed>>

\* NetworkIndex.getItem(id): a local hit is handed to the caller; a miss is
\* broadcast as index:getItem.
NetGetItem(c, id) ==
  /\ ~crashed
  /\ netPc[c] = "idle"
  /\ \A b \in Calls : b < c => netPc[b] = "resolved"
  /\ netOp' = [netOp EXCEPT ![c] = [kind |-> "getItem", id |-> id,
                                     item |-> NoItem]]
  /\ IF localIndex[id].present
       THEN /\ netCallbacks' = [netCallbacks EXCEPT ![c] =
                 Append(@, [err |-> Null, item |-> localIndex[id]])]
            /\ netPc' = [netPc EXCEPT ![c] = "resolved"]
            /\ UNCHANGED <<sent, targets, peerRequests, link>>
       ELSE /\ Send(<<"query", c>>)
            /\ netPc' = [netPc EXCEPT ![c] = "waiting"]
            /\ netCallbacks' = netCallbacks
  /\ UNCHANGED <<networkMap, localIndex, peerIndex, done, response, deliveries,
                 events, bcCalls, crashed>>
  /\ UNCHANGED <<saveVars, idVars, getVars, devVars, extVars>>

\* NetworkIndex.createItem(id, metadata): the entry is created in the local
\* index (FileSystemIndex.createItem) and saveIndex is started.
NetCreateItem(c, id, md) ==
  /\ ~crashed
  /\ netPc[c] = "idle"
  /\ \A b \in Calls : b < c => netPc[b] = "resolved"
  /\ netOp' = [netOp EXCEPT ![c] = [kind |-> "createItem", id |-> id,
                                     item |-> Item(md, <<>>)]]
  /\ localIndex' = [localIndex EXCEPT ![id] = Item(md, <<>>)]
  /\ netPc' = [netPc EXCEPT ![c] = "creating"]
  /\ UNCHANGED <<networkMap, peerIndex, netCallbacks, sent, targets, done,
                 peerRequests,
                 link, response, deliveries, events, bcCalls, crashed>>
  /\ UNCHANGED <<saveVars, idVars, getVars, devVars, extVars>>

\* saveIndex of the local createItem completes: the overriding createItem
\* broadcasts index:createItem and then calls back.
LocalWriteDone(c, err) ==
  /\ ~crashed
  /\ netPc[c] = "creating"
  /\ Send(<<"announce", c>>)
  /\ netCallbacks' = [netCallbacks EXCEPT ![c] =
       Append(@, [err |-> err, item |-> netOp[c].item])]
  /\ netPc' = [netPc EXCEPT ![c] = "resolved"]
  /\ UNCHANGED <<networkMap, localIndex, peerIndex, netOp, done, response,
                 deliveries, events, bcCalls, crashed>>
  /\ UNCHANGED <<saveVars, idVars, getVars, devVars, extVars>>

\* The completion callback of socket.send clears the timer of the send. Here
\* every send completes before its timer (TIMEOUT, 6 s) fires.
SendComplete(m, p) ==
  /\ ~crashed
  /\ link[m][p] = "sending"
  /\ link' = [link EXCEPT ![m][p] = "inflight"]
  /\ UNCHANGED <<networkMap, localIndex, peerIndex, netPc, netOp, netCallbacks,
                 sent, targets, done, peerRequests, response, deliveries, events,
                 bcCalls, crashed>>
  /\ UNCHANGED <<saveVars, idVars, getVars, devVars, extVars>>

\* The response of peer p to an index:getItem request: its local entry, or
\* the error of its local getItem.
GetItemResponse(p, id) ==
  IF peerIndex[p][id].present
    THEN [error |-> Null, data |-> peerIndex[p][id]]
    ELSE [error |-> NOT_FOUND, data |-> NoItem]

\* The port of the HTTP server of peer p (serverPort).
ServerInfo(p) == [port |-> p]

\* FileSystemDevice.get(item, callback): the read stream of the item's path
\* is created and the callback is called without an error, whether or not
\* the file exists.
BaseGetError(files, id) == Null

\* The response of peer p to an nd:get request: the error of the base get,
\* or the port of its HTTP server.
NdGetResponse(p, id) ==
  IF BaseGetError(peerFiles[p], id) # Null
    THEN [error |-> BaseGetError(peerFiles[p], id), data |-> NoItem]
    ELSE [error |-> Null, data |-> ServerInfo(p)]

\* handlePeerRequest on peer p runs the handler of the message type and
\* sends the response the handler asks for. nd:get and index:getItem always
\* answer; index:createItem creates the entry and answers only when its saveIndex
\* failed (err).
PeerHandle(m, p, err) ==
  LET c == CallOf(m) IN
  /\ link[m][p] = "inflight"
  /\ PartOf(m) \in {"query", "announce", "fetch"}
  /\ PartOf(m) \in {"query", "fetch"} => err = Null
  /\ link' = [link EXCEPT ![m][p] = "handled"]
  /\ IF PartOf(m) = "query"
       THEN /\ response' = [response EXCEPT ![m][p] =
                              GetItemResponse(p, netOp[c].id)]
            /\ peerIndex' = peerIndex
     ELSE IF PartOf(m) = "fetch"
       THEN /\ response' = [response EXCEPT ![m][p] =
                              NdGetResponse(p, netOp[c].id)]
            /\ peerIndex' = peerIndex
       ELSE /\ peerIndex' = [peerIndex EXCEPT ![p][netOp[c].id] =
                               AnnouncedItem(c)]
            /\ response' = [response EXCEPT ![m][p] =
                 IF err # Null THEN [error |-> err, data |-> NoItem]
                 ELSE NoResponse]
  /\ UNCHANGED <<networkMap, localIndex, netPc, netOp, netCallbacks, sent,
                 targets, done,
                 peerRequests, deliveries, events, bcCalls, crashed>>
  /\ UNCHANGED <<saveVars, idVars, getVars, devVars, extVars>>

\* The key handlePeerResponse deletes from the transport of the responding
\* peer: `delete transport[response.source]`, the id of the peer itself.
DeletedKey(m, p) == PeerId(p)

\* handlePeerResponse for a response datagram of peer p to message m.
DeliverResponse(m, p) ==
  /\ ~crashed
  /\ response[m][p] # NoResponse
  /\ deliveries[m][p] < MaxDeliveries
  /\ deliveries' = [deliveries EXCEPT ![m][p] = @ + 1]
  /\ peerRequests' = [peerRequests EXCEPT ![p] = @ \ {DeletedKey(m, p)}]
  /\ IF m \in peerRequests[p]
       THEN IF response[m][p].error # Null
              THEN Emit(m, "error", p, response[m][p].error, NoItem)
              ELSE Emit(m, "response", p, Null, response[m][p].data)
       ELSE UNCHANGED <<events, done, bcCalls, localIndex, netOp, netPc,
                        netCallbacks, crashed>>
  /\ UNCHANGED <<networkMap, peerIndex, sent, targets, link, response>>
  /\ UNCHANGED <<saveVars, idVars, getVars, devVars, extVars>>

NetNext ==
  \/ \E c \in Calls, id \in NetIds : NetGetItem(c, id)
  \/ \E c \in Calls, id \in NetIds, md \in LocalMetadatas :
       NetCreateItem(c, id, md)
  \/ \E c \in Calls, err \in {Null, WRITE_ERROR} : LocalWriteDone(c, err)
  \/ \E m \in Msgs, p \in Peers : SendComplete(m, p)
  \/ \E m \in Msgs, p \in Peers, err \in {Null, WRITE_ERROR} :
       PeerHandle(m, p, err)
  \/ \E m \in Msgs, p \in Peers : DeliverResponse(m, p)

NetSpec == NetInit /\ [][NetNext]_vars

\* ----------------------------------------------------- claims on NetSpec
QueryOf(c) == <<"query", c>>
AnnounceOf(c) == <<"announce", c>>
Queries == {QueryOf(c) : c \in Calls}

\* The invocations of the broadcast callback of m that carry a response.
ResponseCalls(m) == SelectSeq(bcCalls[m], LAMBDA q : q.err = Null)

\* A response datagram of message m is handled in this step.
Delivered(m, p) == deliveries'[m][p] = deliveries[m][p] + 1

C14_PeerErrorsSwallowed ==
  \A m \in Queries :
    (\E p \in Peers : response[m][p] # NoResponse /\ response[m][p].error = Null)
      => \A i \in 1..Len(bcCalls[m]) : bcCalls[m][i].err = Null

\* C15: the transport of a peer holds a request id only between the send to
\* that peer and the first response of that peer; once a response has been
\* handled the entry is gone, so at most one event is emitted per peer and
\* request.
C15_EntryRemovedOnFirstResponse ==
  \A m \in Msgs, p \in Peers :
    /\ m \in peerRequests[p] => link[m][p] # "none" /\ deliveries[m][p] = 0
    /\ events[m].n[p] <= 1

\* Call c is a getItem that missed locally and accepted the response of a peer.
ResolvedFromPeer(c) == netOp[c].kind = "getItem" /\ done[QueryOf(c)]

\* C16: a getItem that misses locally and accepts the response {id, metadata}
\* of a peer creates the local entry with the peer's metadata and
\* nodes = [that peer], and hands that item to the caller; the entry stays in
\* the local index, and every later getItem is answered from the local index
\* without a broadcast.
C16_ReadPathCaches ==
  /\ [](\A c \in Calls : ResolvedFromPeer(c) =>
          LET r == ResponseCalls(QueryOf(c))[1] IN
          /\ netOp[c].item = [present |-> TRUE, metadata |-> r.data.metadata,
                              nodes |-> <<r.peer>>]
          /\ netPc[c] = "resolved" =>
               \E i \in 1..Len(netCallbacks[c]) :
                 netCallbacks[c][i].item = netOp[c].item
          /\ \A b \in Calls : (b > c /\ netOp[b].kind = "getItem") =>
               /\ QueryOf(b) \notin sent
               /\ Len(netCallbacks[b]) = 1
               /\ netCallbacks[b][1].err = Null
               /\ netCallbacks[b][1].item.present)
  /\ [][/\ \A m \in Queries, p \in Peers :
             (Delivered(m, p) /\ ~done[m] /\ done'[m]) =>
               localIndex'[netOp[CallOf(m)].id] =
                 [present |-> TRUE,
                  metadata |-> response[m][p].data.metadata,
                  nodes |-> <<p>>]
        /\ \A i \in NetIds : localIndex[i].present => localIndex'[i].present
     ]_vars

\* A getItem was resolved from a peer and a later getItem was answered from
\* the local index.
C16_Witness ==
  \E c, b \in Calls :
    /\ b > c
    /\ ResolvedFromPeer(c)
    /\ netOp[b].kind = "getItem"
    /\ netPc[b] = "resolved"
    /\ QueryOf(b) \notin sent
    /\ netCallbacks[b][1].item = netOp[c].item

\* Something of message m is still on its way: a datagram to send or to
\* handle, or a response to deliver.
Pending(m) ==
  \E p \in Peers :
    \/ link[m][p] \in {"sending", "inflight"}
    \/ response[m][p] # NoResponse /\ deliveries[m][p] < MaxDeliveries

\* C17: a getItem that missed locally and to whose broadcast no peer ever
\* responds has called back with a not-found error once nothing is on its
\* way any more.
C17_NotFoundWhenNoPeerResponds ==
  \A c \in Calls :
    (/\ netOp[c].kind = "getItem"
     /\ QueryOf(c) \in sent
     /\ ~Pending(QueryOf(c))
     /\ \A p \in Peers : response[QueryOf(c)][p] = NoResponse)
    => \E i \in 1..Len(netCallbacks[c]) : netCallbacks[c][i].err = NOT_FOUND

\* C18: createItem creates the local entry before it sends the
\* index:createItem broadcast; the broadcast goes to every peer of the
\* network map and to nobody else; a peer that handled it holds the entry;
\* the creator's callback is invoked in the step that sends, before any peer
\* has handled the message.
C18_WritePath ==
  /\ [](\A c \in Calls : AnnounceOf(c) \in sent =>
          /\ netOp[c].item.present
          /\ \E i \in 1..Len(netCallbacks[c]) :
               netCallbacks[c][i].item = netOp[c].item
          /\ \A p \in Peers :
               /\ link[AnnounceOf(c)][p] # "none" <=> p \in getPeers
               /\ link[AnnounceOf(c)][p] = "handled" =>
                    peerIndex[p][netOp[c].id].present)
  /\ [][\A c \in Calls :
          LET m == AnnounceOf(c) IN
          /\ (m \notin sent /\ m \in sent') =>
               /\ localIndex[netOp[c].id] = netOp[c].item
               /\ \A p \in getPeers :
                    link'[m][p] = "sending" /\ m \in peerRequests'[p]
               /\ Len(netCallbacks'[c]) = Len(netCallbacks[c]) + 1
               /\ netCallbacks'[c][Len(netCallbacks'[c])].item = netOp[c].item
          /\ \A p \in Peers :
               (link[m][p] = "inflight" /\ link'[m][p] = "handled") =>
                 peerIndex'[p][netOp[c].id] = netOp[c].item
     ]_vars

\* A createItem called back while one peer had created the entry and the
\* other had not yet received the message.
C18_Witness ==
  \E c \in Calls :
    /\ netOp[c].kind = "createItem"
    /\ netPc[c] = "resolved"
    /\ \E p, q \in Peers :
         /\ link[AnnounceOf(c)][p] = "handled"
         /\ peerIndex[p][netOp[c].id] = netOp[c].item
         /\ link[AnnounceOf(c)][q] \in {"sending", "inflight"}

\* ------------------------------------------------------- NetworkDevice.get
\* The peers are known, and the local device and the devices of the peers
\* hold the content of some items.
DevInit ==
  /\ errorHandler = FALSE
  /\ devices = [d \in Devices |-> FS_DEVICE_ID]
  /\ index = [i \in Ids |-> 0]
  /\ SaveStart
  /\ IdStart
  /\ GetStart
  /\ networkMap \in {{LOCAL_NODE_ENTRY} \cup ps : ps \in SUBSET Peers}
  /\ localIndex = [i \in NetIds |-> NoItem]
  /\ peerIndex = [p \in Peers |-> [i \in NetIds |-> NoItem]]
  /\ netPc = [c \in Calls |-> "idle"]
  /\ netOp = [c \in Calls |-> [kind |-> Null, id |-> Null, item |-> NoItem]]
  /\ netCallbacks = [c \in Calls |-> <<>>]
  /\ sent = {}
  /\ targets = [m \in Msgs |-> {}]
  /\ done = [m \in Msgs |-> FALSE]
  /\ peerRequests = [p \in Peers |-> {}]
  /\ link = [m \in Msgs |-> [p \in Peers |-> "none"]]
  /\ response = [m \in Msgs |-> [p \in Peers |-> NoResponse]]
  /\ deliveries = [m \in Msgs |-> [p \in Peers |-> 0]]
  /\ events = [m \in Msgs |-> NoEvents]
  /\ bcCalls = [m \in Msgs |-> <<>>]
  /\ crashed = FALSE
  /\ localFiles \in SUBSET NetIds
  /\ peerFiles \in [Peers -> SUBSET NetIds]
  /\ ExtStart

\* The item FileSystemDevice.get hands back, its read stream opened.
OpenedItem(id) == Item(id, <<>>)

\* NetworkDevice.get(item): the base exists() decides between the base get()
\* and the search over the peer network (findItemAndWait), which broadcasts
\* nd:get to the peers of the index.
DeviceGet(c, id) ==
  /\ ~crashed
  /\ netPc[c] = "idle"
  /\ \A b \in Calls : b < c => netPc[b] = "resolved"
  /\ netOp' = [netOp EXCEPT ![c] = [kind |-> "deviceGet", id |-> id,
                                     item |-> NoItem]]
  /\ IF id \in localFiles
       THEN /\ netCallbacks' = [netCallbacks EXCEPT ![c] =
                 Append(@, [err |-> BaseGetError(localFiles, id),
                            item |-> OpenedItem(id)])]
            /\ netPc' = [netPc EXCEPT ![c] = "resolved"]
            /\ UNCHANGED <<sent, targets, peerRequests, link>>
       ELSE /\ Send(<<"fetch", c>>)
            /\ netPc' = [netPc EXCEPT ![c] = "waiting"]
            /\ netCallbacks' = netCallbacks
  /\ UNCHANGED <<networkMap, localIndex, peerIndex, done, response, deliveries,
                 events, bcCalls, crashed>>
  /\ UNCHANGED <<saveVars, idVars, getVars, devVars, extVars>>

DevNext ==
  \/ \E c \in Calls, id \in NetIds : DeviceGet(c, id)
  \/ \E m \in Msgs, p \in Peers : SendComplete(m, p)
  \/ \E m \in Msgs, p \in Peers : PeerHandle(m, p, Null)
  \/ \E m \in Msgs, p \in Peers : DeliverResponse(m, p)

DevSpec == DevInit /\ [][DevNext]_vars

\* ----------------------------------------------------- claims on DevSpec
FetchOf(c) == <<"fetch", c>>

\* The peer whose response the search of call c accepted.
AcceptedPeer(c) == events[FetchOf(c)].first

\* C19: a peer answers an nd:get request with its port only if its own
\* device holds the content of the requested item; a peer that lacks the
\* content answers with an error.
C19_PortOnlyFromHolder ==
  \A c \in Calls, p \in Peers :
    link[FetchOf(c)][p] = "handled" =>
      IF netOp[c].id \in peerFiles[p]
        THEN response[FetchOf(c)][p] = [error |-> Null, data |-> ServerInfo(p)]
        ELSE response[FetchOf(c)][p].error # Null

\* C20: a get for an item missing from the local device, whose search
\* accepted the answer of a peer holding the content, does not fail the
\* node; once it has resolved the file exists in the local device and a
\* later get of the item is served locally, without a broadcast.
C20_TransparentFetch ==
  \A c \in Calls :
    (/\ netOp[c].kind = "deviceGet"
     /\ done[FetchOf(c)]
     /\ netOp[c].id \in peerFiles[AcceptedPeer(c)]) =>
       /\ ~crashed
       /\ netPc[c] = "resolved" =>
            /\ netOp[c].id \in localFiles
            /\ \A b \in Calls :
                 (b > c /\ netOp[b].kind = "deviceGet"
                        /\ netOp[b].id = netOp[c].id) => FetchOf(b) \notin sent

\* ------------------------------------------------------------------- Swarm
MaxSwarmCalls == 3

\* Swarm's initialize: the descriptor files of the peers directory, the
\* local one included, are loaded into peerMap.
SwarmInit ==
  /\ errorHandler = FALSE
  /\ devices = [d \in Devices |-> FS_DEVICE_ID]
  /\ index = [i \in Ids |-> 0]
  /\ SaveStart
  /\ IdStart
  /\ GetStart
  /\ NetStart
  /\ DevStart
  /\ peerDir \in {{LOCAL_PEER_ENTRY} \cup {PeerId(p) : p \in ps} :
                    ps \in SUBSET Peers}
  /\ peerMap = peerDir
  /\ swarmCalls = <<>>
  /\ MapStart
  /\ SrvStart
  /\ AuxStart

\* Swarm.getPeers: every entry of peerMap but the local one.
Swarm_getPeers == peerMap \ {LOCAL_PEER_ENTRY}

\* The peerMap Swarm.join(peer) leaves: the instance of the peer is replaced
\* when the map already has its id, and the map is left alone otherwise.
Swarm_join(map, p) ==
  IF PeerId(p) \in map THEN (map \ {PeerId(p)}) \cup {PeerId(p)} ELSE map

\* The calls of its callback argument that a method of Swarm makes:
\* join(peer) and leave(peer) take the peer only.
SwarmCallbackCalls == 0

\* NetworkDataStore.join(peer, callback) is swarm.join(peer, callback): the
\* descriptor file of the peer is written and the map updated.
Join(p) ==
  /\ Len(swarmCalls) < MaxSwarmCalls
  /\ peerDir' = peerDir \cup {PeerId(p)}
  /\ peerMap' = Swarm_join(peerMap, p)
  /\ swarmCalls' = Append(swarmCalls,
       [op |-> "join", peer |-> p, threw |-> FALSE,
        callbacks |-> SwarmCallbackCalls])
  /\ UNCHANGED <<saveVars, idVars, getVars, netVars, devVars, mapVars,
                 srvVars, auxVars>>

\* NetworkDataStore.leave(peer, callback) is swarm.leave(peer, callback):
\* fs.unlinkSync throws when the peer has no descriptor file, otherwise the
\* file and the entry of the map are removed.
Leave(p) ==
  /\ Len(swarmCalls) < MaxSwarmCalls
  /\ IF PeerId(p) \in peerDir
       THEN /\ peerDir' = peerDir \ {PeerId(p)}
            /\ peerMap' = peerMap \ {PeerId(p)}
       ELSE UNCHANGED <<peerDir, peerMap>>
  /\ swarmCalls' = Append(swarmCalls,
       [op |-> "leave", peer |-> p, threw |-> PeerId(p) \notin peerDir,
        callbacks |-> IF PeerId(p) \in peerDir THEN SwarmCallbackCalls ELSE 0])
  /\ UNCHANGED <<saveVars, idVars, getVars, netVars, devVars, mapVars,
                 srvVars, auxVars>>

SwarmNext ==
  \/ \E p \in Peers : Join(p)
  \/ \E p \in Peers : Leave(p)

SwarmSpec == SwarmInit /\ [][SwarmNext]_vars

\* ---------------------------------------------------- claims on SwarmSpec
\* The last call made on the swarm.
LastSwarmCall == swarmCalls[Len(swarmCalls)]

\* C21: after join(p) the roster getPeers() includes p, whether or not p was
\* in it before; after leave(p) it does not include p; it never includes the
\* local peer.
C21_RosterMembership ==
  /\ LOCAL_PEER_ENTRY \notin Swarm_getPeers
  /\ (Len(swarmCalls) > 0 /\ ~LastSwarmCall.threw) =>
       /\ LastSwarmCall.op = "join" =>
            PeerId(LastSwarmCall.peer) \in Swarm_getPeers
       /\ LastSwarmCall.op = "leave" =>
            PeerId(LastSwarmCall.peer) \notin Swarm_getPeers

\* C22: join and leave of the data store invoke their callback exactly once
\* after the roster has been updated; both run to their end synchronously,
\* so every call of the log has made all the callback calls it will make.
C22_JoinLeaveCallbackOnce ==
  \A i \in 1..Len(swarmCalls) :
    ~swarmCalls[i].threw => swarmCalls[i].callbacks = 1

\* ------------------------------------------- NetworkIndex.join and leave
\* The index of a node whose network map was created by initNetwork: it
\* holds the local node only.
MapInit ==
  /\ errorHandler = FALSE
  /\ devices = [d \in Devices |-> FS_DEVICE_ID]
  /\ index = [i \in Ids |-> 0]
  /\ SaveStart
  /\ IdStart
  /\ GetStart
  /\ DevStart
  /\ ExtStart
  /\ networkMap = {LOCAL_NODE_ENTRY}
  /\ localIndex = [i \in NetIds |-> NoItem]
  /\ peerIndex = [p \in Peers |-> [i \in NetIds |-> NoItem]]
  /\ netPc = [c \in Calls |-> "idle"]
  /\ netOp = [c \in Calls |-> [kind |-> Null, id |-> Null, item |-> NoItem]]
  /\ netCallbacks = [c \in Calls |-> <<>>]
  /\ sent = {}
  /\ targets = [m \in Msgs |-> {}]
  /\ done = [m \in Msgs |-> FALSE]
  /\ peerRequests = [p \in Peers |-> {}]
  /\ link = [m \in Msgs |-> [p \in Peers |-> "none"]]
  /\ response = [m \in Msgs |-> [p \in Peers |-> NoResponse]]
  /\ deliveries = [m \in Msgs |-> [p \in Peers |-> 0]]
  /\ events = [m \in Msgs |-> NoEvents]
  /\ bcCalls = [m \in Msgs |-> <<>>]
  /\ crashed = FALSE

\* Mutant: join leaves the network map alone.
JoinedMap_unchanged(map, p) == map

\* root[peer.id] = peer on the metadata of the "__p2p__" entry.
JoinedMap(map, p) == map \cup {p}

\* NetworkIndex.join(peer, callback): the entry of the peer is set in the
\* network map held by the index, and callback(null) is called.
NetJoin(p) ==
  /\ ~crashed
  /\ networkMap' = JoinedMap(networkMap, p)
  /\ mapOp' = [mapOp EXCEPT ![p] = "join"]
  /\ UNCHANGED <<localIndex, peerIndex, netPc, netOp, netCallbacks, sent,
                 targets, done, peerRequests, link, response, deliveries,
                 events, bcCalls, crashed>>
  /\ UNCHANGED <<saveVars, idVars, getVars, devVars, swarmVars, srvVars,
                 auxVars>>

\* NetworkIndex.leave(peer, callback): delete root[peer.id], and
\* callback(null) is called.
NetLeave(p) ==
  /\ ~crashed
  /\ networkMap' = networkMap \ {p}
  /\ mapOp' = [mapOp EXCEPT ![p] = "leave"]
  /\ UNCHANGED <<localIndex, peerIndex, netPc, netOp, netCallbacks, sent,
                 targets, done, peerRequests, link, response, deliveries,
                 events, bcCalls, crashed>>
  /\ UNCHANGED <<saveVars, idVars, getVars, devVars, swarmVars, srvVars,
                 auxVars>>

MapNext ==
  \/ \E p \in Peers : NetJoin(p)
  \/ \E p \in Peers : NetLeave(p)
  \/ \E c \in Calls, id \in NetIds : NetGetItem(c, id)
  \/ \E c \in Calls, id \in NetIds, md \in LocalMetadatas :
       NetCreateItem(c, id, md)
  \/ \E c \in Calls, err \in {Null, WRITE_ERROR} : LocalWriteDone(c, err)
  \/ \E c \in Calls, id \in NetIds : DeviceGet(c, id)
  \/ \E m \in Msgs, p \in Peers : SendComplete(m, p)
  \/ \E m \in Msgs, p \in Peers, err \in {Null, WRITE_ERROR} :
       PeerHandle(m, p, err)
  \/ \E m \in Msgs, p \in Peers : DeliverResponse(m, p)

MapSpec == MapInit /\ [][MapNext]_vars

\* ------------------------------------------------------ claims on MapSpec
\* C23: after join(p) getPeers() contains p and every later broadcast
\* (index:getItem, index:createItem, nd:get) is sent to p; after leave(p)
\* getPeers() does not contain p and no later broadcast is sent to p; the
\* entry "__local__" is never returned by getPeers() nor the target of a
\* broadcast.
C23_NetworkMapMaintenance ==
  /\ [](/\ LOCAL_NODE_ENTRY \notin getPeers
        /\ \A m \in sent : LOCAL_NODE_ENTRY \notin targets[m]
        /\ \A p \in Peers :
             /\ mapOp[p] = "join" => p \in getPeers
             /\ mapOp[p] = "leave" => p \notin getPeers)
  /\ [][\A m \in Msgs : (m \notin sent /\ m \in sent') =>
          \A p \in Peers :
            /\ mapOp[p] = "join" =>
                 p \in targets'[m] /\ link'[m][p] = "sending"
            /\ mapOp[p] = "leave" =>
                 p \notin targets'[m] /\ link'[m][p] = "none"]_vars

\* A peer joined and another one left between two broadcasts: the first was
\* sent to both, the later one to the peer that stayed only.
C23_Witness ==
  \E p, q \in Peers, m1, m2 \in sent :
    /\ mapOp[p] = "join"
    /\ mapOp[q] = "leave"
    /\ PartOf(m1) = "announce"
    /\ PartOf(m2) = "fetch"
    /\ {p, q} \subseteq targets[m1]
    /\ p \in targets[m2]
    /\ q \notin targets[m2]

\* ------------------------------------------- claims on Spec and FairSpec
\* C24: index entries are persisted after each mutation: once a save whose
\* createItem succeeded has resolved and its per-device status updates have
\* been made, index.json holds the entry as the index holds it in memory,
\* without a later flush.
C24_PersistedAfterMutation ==
  \A s \in Saves :
    (createResult[s] = "ok" /\ pc[s] = "resolved" /\ AllPutsDone(s)
       /\ index[itemId[s]] = s) =>
      LoadIndex[itemId[s]] = Entry(itemId[s])

\* The item of save s is missing: the save has resolved, its entry is in the
\* index and no device holds the content (every status is non-200).
Missing(s) ==
  /\ pc[s] = "resolved"
  /\ createResult[s] = "ok"
  /\ index[itemId[s]] = s
  /\ AllPutsDone(s)
  /\ \A k \in DeviceIds : status[s][k].code # 200

\* Save t re-attached the item of save s: same id, its entry is the one in
\* the index and every put of t has completed.
Reattached(s, t) ==
  /\ createResult[t] = "ok"
  /\ itemId[t] = itemId[s]
  /\ index[itemId[t]] = t
  /\ AllPutsDone(t)

\* What holds of save t once the item of save s is missing.
ReattachOutcome(s, t) ==
  /\ pc[s] # "idle" => HasItem(itemId[s])
  /\ \A i \in 1..Len(callbacks[t]) :
       callbacks[t][i].err \in {Null, WRITE_ERROR, SEND_ERROR}
  /\ Reattached(s, t) =>
       \A d \in Devices :
         put[t][d] = "ok" => Entry(itemId[t]).status[getId(d)].code = 200

\* C25: an item whose device statuses are all non-200 stays retrievable by
\* getItem, and a save of the same content and namespace made afterwards
\* does not fail on the existing id and leaves status code 200 for every
\* device whose put succeeds.
C25_MissingItemReattached ==
  \A s, t \in Saves :
    []((Missing(s) /\ pc[t] = "idle") => []ReattachOutcome(s, t))

\* ------------------------------------------------ further claims on NetSpec
\* C26: the metadata of an index entry is the one given when the entry was
\* first created: no step (createItem, network getItem, a received
\* index:createItem) changes the metadata of an entry that exists, in the
\* index of the local node or in the index of a peer.
C26_MetadataImmutable ==
  [][\A id \in NetIds :
       /\ localIndex[id].present =>
            localIndex'[id].metadata = localIndex[id].metadata
       /\ \A p \in Peers :
            peerIndex[p][id].present =>
              peerIndex'[p][id].metadata = peerIndex[p][id].metadata]_vars

\* ------------------------------------------- NetworkManager: message server
MaxDatagrams == 2
MaxRequests == 1

\* The id of the local node, and the peer the datagrams come from.
LocalNodeId == PeerId(LOCAL_NODE_ENTRY)
SrvPeer == 1

\* Message types, and the handler object NetworkIndex registers.
SrvTypes == {"index:getItem", "index:bogus"}
IndexHandlers == {"index:getItem"}

\* The key of a request in the transport of a peer.
ReqKey(id) == <<"request", id>>

\* The JSON objects a socket can deliver: requests (ping), responses (pong)
\* and objects that are neither, each addressed to the local node or to
\* another node.
Datagram(target, kind, ns, type, error) ==
  [target |-> target, kind |-> kind, namespace |-> ns, type |-> type,
   source |-> SrvPeer, id |-> 1, error |-> error]
SrvTargets == {LocalNodeId, PeerId(SrvPeer)}
SrvErrors == {Null, "{}"}
Datagrams ==
  {Datagram(t, "ping", ns, ty, Null) :
     t \in SrvTargets, ns \in SrvNamespaces, ty \in SrvTypes}
  \cup {Datagram(t, "pong", Null, Null, e) : t \in SrvTargets, e \in SrvErrors}
  \cup {Datagram(t, "none", Null, Null, Null) : t \in SrvTargets}

\* Failures: exceptions nothing catches.
NOT_RECOGNIZED == "Message not recognized"
NO_HANDLERS_STACK == "TypeError: handlersStack is undefined"
NO_SEND_CALLBACK == "TypeError: callback is not a function"
UNHANDLED_ERROR_EVENT == "Unhandled 'error' event"
CONNECTION_TIMEOUT == "send(): connection timeout"

\* new Error("Message " + request.type + " not found.")
NotFoundError(type) ==
  IF type = "index:getItem" THEN "Message index:getItem not found."
  ELSE "Message index:bogus not found."

\* JSON.stringify of a message in send(): an Error object has no enumerable
\* property, so it is written as the empty object.
Serialized(err) == IF err = Null THEN Null ELSE "{}"

\* The manager of a node: NetworkIndex has registered its handlers once or
\* twice under its namespace, or not yet.
SrvInit ==
  /\ errorHandler = FALSE
  /\ devices = [d \in Devices |-> FS_DEVICE_ID]
  /\ index = [i \in Ids |-> 0]
  /\ SaveStart
  /\ IdStart
  /\ GetStart
  /\ NetStart
  /\ DevStart
  /\ SwarmStart
  /\ MapStart
  /\ AuxStart
  /\ messageListeners \in
       {[ns \in SrvNamespaces |-> IF ns = "p2p:index" THEN l ELSE NoListeners] :
          l \in {NoListeners, Listeners(<<IndexHandlers>>),
                 Listeners(<<IndexHandlers, IndexHandlers>>)}}
  /\ srvTable = {}
  /\ srvListeners = FALSE
  /\ srvReceived = <<>>
  /\ srvInvoked = <<>>
  /\ wire = <<>>
  /\ srvEvents = <<>>
  /\ srvReports = <<>>
  /\ srvFailure = Null

\* A datagram handed to the private send(): the 6 s timer is armed.
Outgoing(kind, to, type, error, listeners) ==
  [kind |-> kind, to |-> to, type |-> type, error |-> error,
   listeners |-> listeners, timer |-> "armed"]

\* NetworkManager.send(message) of a broadcast message with one target: the
\* message is filed in the transport of the target and the request is sent;
\* the callback of the send emits "error" on the message.
SrvSend(listeners) ==
  /\ srvFailure = Null
  /\ Cardinality({i \in 1..Len(wire) : wire[i].kind = "request"}) < MaxRequests
  /\ srvTable' = srvTable \cup {<<SrvPeer, ReqKey(1)>>}
  /\ srvListeners' = listeners
  /\ wire' = Append(wire, Outgoing("request", SrvPeer, "index:getItem", Null,
                                   listeners))
  /\ UNCHANGED <<messageListeners, srvReceived, srvInvoked, srvEvents,
                 srvReports, srvFailure>>
  /\ UNCHANGED <<saveVars, idVars, getVars, netVars, devVars, swarmVars,
                 mapVars, auxVars>>

\* The response a handler object gives to request d: the data of its handler
\* for the type, or the not-found error.
ResponseOf(handlers, d) ==
  IF d.type \in handlers
    THEN Outgoing("response", d.source, d.type, Null, FALSE)
    ELSE Outgoing("response", d.source, d.type,
                  Serialized(NotFoundError(d.type)), FALSE)

\* handlePeerRequest(request): forEach over the stack of handler objects of
\* the namespace; a namespace without stack makes forEach a TypeError.
HandlePeerRequest(d) ==
  LET l == messageListeners[d.namespace] IN
  IF ~l.defined
    THEN /\ srvFailure' = NO_HANDLERS_STACK
         /\ UNCHANGED <<srvInvoked, wire>>
    ELSE /\ wire' = wire \o [k \in 1..Len(l.stack) |-> ResponseOf(l.stack[k], d)]
         /\ srvInvoked' = srvInvoked \o
              [k \in 1..Cardinality({j \in 1..Len(l.stack) :
                                        d.type \in l.stack[j]}) |-> d]
         /\ srvFailure' = srvFailure

\* handlePeerResponse(response): the message filed under the source and the
\* request id gets an "error" or a "response" event; an "error" event on a
\* message without listener is thrown by the emitter.
HandlePeerResponse(d) ==
  /\ srvTable' = srvTable \ {<<d.source, PeerId(d.source)>>}
  /\ IF <<d.source, ReqKey(d.id)>> \in srvTable
       THEN IF d.error # Null
              THEN IF srvListeners
                     THEN /\ srvEvents' = Append(srvEvents, "error")
                          /\ srvReports' = Append(srvReports,
                               [send |-> 0, error |-> d.error])
                          /\ srvFailure' = srvFailure
                     ELSE /\ srvFailure' = UNHANDLED_ERROR_EVENT
                          /\ srvEvents' = Append(srvEvents, "error")
                          /\ srvReports' = srvReports
              ELSE /\ srvEvents' = Append(srvEvents, "response")
                   /\ UNCHANGED <<srvReports, srvFailure>>
       ELSE UNCHANGED <<srvEvents, srvReports, srvFailure>>

\* Mutant: the server handles every datagram.
Accepts_any(d) == TRUE

\* It only handles messages sent to this server.
Accepts(d) == d.target = LocalNodeId

\* The "message" listener of the socket created by createMessageServer.
Receive(d) ==
  /\ srvFailure = Null
  /\ Len(srvReceived) < MaxDatagrams
  /\ srvReceived' = Append(srvReceived, d)
  /\ IF ~Accepts(d)
       THEN UNCHANGED <<srvTable, srvInvoked, wire, srvEvents, srvReports,
                        srvFailure>>
     ELSE IF d.kind = "ping"
       THEN /\ HandlePeerRequest(d)
            /\ UNCHANGED <<srvTable, srvEvents, srvReports>>
     ELSE IF d.kind = "pong"
       THEN /\ HandlePeerResponse(d)
            /\ UNCHANGED <<srvInvoked, wire>>
       ELSE /\ srvFailure' = NOT_RECOGNIZED
            /\ UNCHANGED <<srvTable, srvInvoked, wire, srvEvents, srvReports>>
  /\ UNCHANGED <<messageListeners, srvListeners>>
  /\ UNCHANGED <<saveVars, idVars, getVars, netVars, devVars, swarmVars,
                 mapVars, auxVars>>

\* The completion callback of socket.send: clearTimeout(timeout).
WriteComplete(i) ==
  /\ srvFailure = Null
  /\ i \in 1..Len(wire)
  /\ wire[i].timer = "armed"
  /\ wire' = [wire EXCEPT ![i].timer = "cleared"]
  /\ UNCHANGED <<messageListeners, srvTable, srvListeners, srvReceived,
                 srvInvoked, srvEvents, srvReports, srvFailure>>
  /\ UNCHANGED <<saveVars, idVars, getVars, netVars, devVars, swarmVars,
                 mapVars, auxVars>>

\* The timer of a send fires: callback(new Error("send(): connection
\* timeout...")). The callback of a request emits "error" on the message;
\* the responses of handlePeerRequest are sent without a callback.
TimerFires(i) ==
  /\ srvFailure = Null
  /\ i \in 1..Len(wire)
  /\ wire[i].timer = "armed"
  /\ wire' = [wire EXCEPT ![i].timer = "fired"]
  /\ IF wire[i].kind = "response"
       THEN /\ srvFailure' = NO_SEND_CALLBACK
            /\ UNCHANGED <<srvEvents, srvReports>>
     ELSE IF wire[i].listeners
       THEN /\ srvEvents' = Append(srvEvents, "error")
            /\ srvReports' = Append(srvReports,
                 [send |-> i, error |-> CONNECTION_TIMEOUT])
            /\ srvFailure' = srvFailure
       ELSE /\ srvFailure' = UNHANDLED_ERROR_EVENT
            /\ srvEvents' = Append(srvEvents, "error")
            /\ srvReports' = srvReports
  /\ UNCHANGED <<messageListeners, srvTable, srvListeners, srvReceived,
                 srvInvoked>>
  /\ UNCHANGED <<saveVars, idVars, getVars, netVars, devVars, swarmVars,
                 mapVars, auxVars>>

SrvNext ==
  \/ \E l \in BOOLEAN : SrvSend(l)
  \/ \E d \in Datagrams : Receive(d)
  \/ \E i \in 1..(2 * MaxDatagrams + MaxRequests) : WriteComplete(i)
  \/ \E i \in 1..(2 * MaxDatagrams + MaxRequests) : TimerFires(i)

SrvSpec == SrvInit /\ [][SrvNext]_vars

\* ------------------------------------------------------ claims on SrvSpec
\* The datagram the socket delivers in this step.
Delivering(d) ==
  /\ Len(srvReceived') = Len(srvReceived) + 1
  /\ srvReceived'[Len(srvReceived')] = d

\* C27: a datagram whose target differs from the id of the local node causes
\* no handler invocation, no response datagram, no event on a pending
\* message and no change to the correlation table.
C27_TargetFilter ==
  [][\A d \in Datagrams :
       (Delivering(d) /\ d.target # LocalNodeId) =>
         /\ srvInvoked' = srvInvoked
         /\ wire' = wire
         /\ srvEvents' = srvEvents
         /\ srvReports' = srvReports
         /\ srvTable' = srvTable
         /\ srvFailure' = srvFailure]_vars

\* A request and a response for another node were dropped although the node
\* has handlers and a pending message, both of which serve datagrams
\* addressed to it.
C27_Witness ==
  /\ Len(srvReceived) = 2
  /\ srvReceived[1].target # LocalNodeId
  /\ srvReceived[1].kind \in {"ping", "pong"}
  /\ srvReceived[1].kind = "ping" =>
       /\ messageListeners[srvReceived[1].namespace].defined
       /\ srvReceived[1].type \in IndexHandlers
  /\ srvReceived[2] = [srvReceived[1] EXCEPT !.target = LocalNodeId]
  /\ srvTable # {}
  /\ srvFailure = Null
  /\ srvReceived[1].kind = "ping" => Len(srvInvoked) = 1
  /\ srvReceived[1].kind = "pong" => Len(srvEvents) = 1

\* No handler object of the namespace of request d has a handler for its
\* type; a namespace without handlers included.
NoHandler(d) ==
  \/ ~messageListeners[d.namespace].defined
  \/ \A k \in 1..Len(messageListeners[d.namespace].stack) :
       d.type \notin messageListeners[d.namespace].stack[k]

\* C28: for every request addressed to the local node for which no handler
\* is registered under its namespace and type, a response carrying the error
\* "Message <type> not found" has been sent back to its origin.
C28_UnknownMessageDispatch ==
  \A i \in 1..Len(srvReceived) :
    LET d == srvReceived[i] IN
    (d.target = LocalNodeId /\ d.kind = "ping" /\ NoHandler(d)) =>
      \E j \in 1..Len(wire) :
        /\ wire[j].kind = "response"
        /\ wire[j].to = d.source
        /\ wire[j].type = d.type
        /\ wire[j].error = NotFoundError(d.type)

\* The reports of the error of send i to the listeners of its message.
TimeoutReports(i) ==
  SelectSeq(srvReports, LAMBDA r : r.send = i)

\* C29: for every send, of a request or of a response: if the write
\* completed first, no timeout is ever reported for it; if the timer fired
\* first, the connection timeout is reported exactly once to the sender and
\* nothing else fails.
C29_SendTimeout ==
  \A i \in 1..Len(wire) :
    /\ wire[i].timer \in {"armed", "cleared"} => TimeoutReports(i) = <<>>
    /\ wire[i].timer = "fired" =>
         /\ TimeoutReports(i) = <<[send |-> i, error |-> CONNECTION_TIMEOUT]>>
         /\ srvFailure = Null


\* --------------------------------------- NetworkManager: createHttpServer
\* Math.random() yields num / RandomDen for these numerators: the least
\* values, a middle one and the greatest below 1.
RandomDen == 24000
RandomNums == {0, 1, 12000, 23999}

\* randomPort: Math.floor(Math.random() * 12000 + 1024).
PortRange == 12000
PortBase == 1024
randomPort(num) == (num * PortRange) \div RandomDen + PortBase

HttpPorts == {randomPort(n) : n \in RandomNums}

\* The outcomes of Gateway.openPort("tcp", port): the callback gets an error
\* or none.
OpenPortResults == {"mapped", "failed"}

\* The error of a server whose port is already listened on.
EADDRINUSE == "EADDRINUSE"

\* Some ports are taken by other processes of the machine.
HttpInit ==
  /\ errorHandler = FALSE
  /\ devices = [d \in Devices |-> FS_DEVICE_ID]
  /\ index = [i \in Ids |-> 0]
  /\ SaveStart
  /\ IdStart
  /\ GetStart
  /\ NetStart
  /\ DevStart
  /\ SwarmStart
  /\ MapStart
  /\ SrvStart
  /\ busyPorts \in SUBSET HttpPorts
  /\ httpPc = [c \in HttpCalls |-> "idle"]
  /\ httpPort = [c \in HttpCalls |-> NoPort]
  /\ httpMapped = [c \in HttpCalls |-> Null]
  /\ httpCallbacks = [c \in HttpCalls |-> <<>>]
  /\ RestStart

\* createHttpServer(requestListener, callback): chooses the port and asks the
\* gateway to map it.
CreateHttpServer(c, num) ==
  /\ httpPc[c] = "idle"
  /\ httpPort' = [httpPort EXCEPT ![c] = randomPort(num)]
  /\ httpPc' = [httpPc EXCEPT ![c] = "opening"]
  /\ UNCHANGED <<busyPorts, httpMapped, httpCallbacks>>
  /\ UNCHANGED <<saveVars, idVars, getVars, netVars, devVars, swarmVars,
                 mapVars, srvVars, restVars>>

\* The callback of gateway.openPort: the outcome is logged, the server is
\* created with its "error" listener and told to listen, and the callback is
\* invoked with the port.
OpenPortDone(c, result) ==
  /\ httpPc[c] = "opening"
  /\ httpMapped' = [httpMapped EXCEPT ![c] = result]
  /\ httpPc' = [httpPc EXCEPT ![c] = "binding"]
  /\ httpCallbacks' = [httpCallbacks EXCEPT
       ![c] = Append(@, [err |-> Null, port |-> httpPort[c]])]
  /\ UNCHANGED <<busyPorts, httpPort>>
  /\ UNCHANGED <<saveVars, idVars, getVars, netVars, devVars, swarmVars,
                 mapVars, srvVars, restVars>>

\* The port of a server is listened on by another process or by another
\* server of this one.
PortTaken(c) ==
  \/ httpPort[c] \in busyPorts
  \/ \E d \in HttpCalls \ {c} :
       httpPc[d] = "listening" /\ httpPort[d] = httpPort[c]

\* server.listen(port) completes: the server listens, or it emits "error"
\* and its listener invokes the callback with the error and the port.
Listen(c) ==
  /\ httpPc[c] = "binding"
  /\ IF PortTaken(c)
       THEN /\ httpPc' = [httpPc EXCEPT ![c] = "failed"]
            /\ httpCallbacks' = [httpCallbacks EXCEPT
                 ![c] = Append(@, [err |-> EADDRINUSE, port |-> httpPort[c]])]
       ELSE /\ httpPc' = [httpPc EXCEPT ![c] = "listening"]
            /\ UNCHANGED httpCallbacks
  /\ UNCHANGED <<busyPorts, httpPort, httpMapped>>
  /\ UNCHANGED <<saveVars, idVars, getVars, netVars, devVars, swarmVars,
                 mapVars, srvVars, restVars>>

HttpNext ==
  \/ \E c \in HttpCalls, num \in RandomNums : CreateHttpServer(c, num)
  \/ \E c \in HttpCalls, r \in OpenPortResults : OpenPortDone(c, r)
  \/ \E c \in HttpCalls : Listen(c)

HttpSpec == HttpInit /\ [][HttpNext]_vars

\* C30: the port createHttpServer chooses is in [1024, 13024); a failure of
\* Gateway.openPort neither prevents the server from listening nor produces an
\* error result; and the callback is invoked exactly once, with no error and
\* with that port.
C30_HttpServerStart ==
  \A c \in HttpCalls :
    /\ httpPc[c] # "idle" => (1024 <= httpPort[c] /\ httpPort[c] < 13024)
    /\ Len(httpCallbacks[c]) <= 1
    /\ httpPc[c] \in {"binding", "listening", "failed"} =>
         httpCallbacks[c] = <<[err |-> Null, port |-> httpPort[c]]>>
    /\ (httpMapped[c] = "failed" /\ httpPc[c] = "failed") => PortTaken(c)

\* The requests addressed to the local node the socket has delivered, and the
\* responses handed to send().
RequestsReceived ==
  {i \in 1..Len(srvReceived) :
     srvReceived[i].kind = "ping" /\ srvReceived[i].target = LocalNodeId}
ResponsesSent == {i \in 1..Len(wire) : wire[i].kind = "response"}

\* C36: for every request datagram addressed to the local node exactly one
\* response datagram is sent to its origin, also when several handler sets
\* are registered under the namespace of the request (as long as no exception
\* has ended the process).
C36_OneResponsePerRequest ==
  srvFailure = Null =>
  /\ Cardinality(ResponsesSent) = Cardinality(RequestsReceived)
  /\ \A i \in ResponsesSent : wire[i].to = SrvPeer

\* --------------------------------------- claims on NetSpec: remote effects
\* Peer p handles the request of message m in this step.
Handling(m, p) == link[m][p] = "inflight" /\ link'[m][p] = "handled"

\* C37: a getItem of the local node that is resolved from a peer sends no
\* index:createItem announcement, and no request sent for it changes the
\* index of a peer.
C37_ReadsDoNotWriteRemotely ==
  /\ [](\A c \in Calls :
          netOp[c].kind = "getItem" => AnnounceOf(c) \notin sent)
  /\ [][\A c \in Calls, m \in Msgs, p \in Peers :
          (netOp[c].kind = "getItem" /\ CallOf(m) = c /\ Handling(m, p)) =>
            peerIndex' = peerIndex]_vars

\* C38: a peer that handles an index:createItem message for an id its index
\* already holds leaves the entry of that id as it is.
C38_AnnouncementsDoNotClobber ==
  [][\A c \in Calls, p \in Peers :
       (Handling(AnnounceOf(c), p) /\ peerIndex[p][netOp[c].id].present) =>
         peerIndex'[p][netOp[c].id] = peerIndex[p][netOp[c].id]]_vars

\* ---------------------------------------------- further claims on GetSpec
\* Device d passed the truth test of get: it is available and holds the item.
Qualified(d) == ping[d] = "true" /\ exists[d] = "true"

\* C34: the device get reads the item from is the first device of the list
\* that is available and holds the item, in whatever order the ping and
\* exists callbacks of the devices complete.
C34_FirstDeviceInListOrder ==
  \A d \in deviceGets : \A e \in Devices : e < d => ~Qualified(e)

\* ------------------------------------------------- FileSystemDevice.put
\* FileSystemDevice.put (FileSystemDevice.js:76-92) on one device: the
\* stream of the item is piped into a write stream of the target file; the
\* "error" listeners of both streams and the "close" listener of the write
\* stream record a status and call back.

\* The errors a stream hands to its "error" listeners.
ENOSPC == "ENOSPC"
PutErrors == {PUT_ERROR, ENOSPC}

\* The state shared with no put.
FsInit ==
  /\ errorHandler = FALSE
  /\ devices = [d \in Devices |-> FS_DEVICE_ID]
  /\ index = [i \in Ids |-> 0]
  /\ SaveStart
  /\ IdStart
  /\ GetStart
  /\ NetStart
  /\ DevStart
  /\ ExtStart

\* errorCallback: item.status(this, 500, err); callback(err, item).
errorCallback(p, err) ==
  /\ fsStatus' = [fsStatus EXCEPT ![p] = StatusEntry(500, err)]
  /\ fsCallbacks' = [fsCallbacks EXCEPT ![p] =
       Append(@, [err |-> err, item |-> p])]

\* put(item, callback): the write stream is created, the listeners are
\* registered and the pipe starts.
FsPut(p) ==
  /\ fsPc[p] = "idle"
  /\ \A q \in PutCalls : q < p => fsPc[q] # "idle"
  /\ fsPc' = [fsPc EXCEPT ![p] = "piping"]
  /\ UNCHANGED <<fsStatus, fsCallbacks>>
  /\ UNCHANGED fsOthers

\* The stream of the item emits "error": errorCallback runs and the pipe
\* unpipes; the write stream is left open.
SourceError(p, err) ==
  /\ fsPc[p] = "piping"
  /\ errorCallback(p, err)
  /\ fsPc' = [fsPc EXCEPT ![p] = "unpiped"]
  /\ UNCHANGED fsOthers

\* The write stream emits "error" (the file cannot be opened, or a write
\* fails): errorCallback runs; the stream is destroyed, and it emits "close"
\* afterwards when it closes a file descriptor (willClose).
WriteError(p, err, willClose) ==
  /\ fsPc[p] = "piping"
  /\ errorCallback(p, err)
  /\ fsPc' = [fsPc EXCEPT ![p] = IF willClose THEN "closing" ELSE "destroyed"]
  /\ UNCHANGED fsOthers

\* The write stream emits "close", after the stream of the item ended and the
\* file was written or after the stream was destroyed on an error: the
\* listener records item.status(this, 200) and calls callback(null, item).
WriteClose(p) ==
  /\ fsPc[p] \in {"piping", "closing"}
  /\ fsStatus' = [fsStatus EXCEPT ![p] = StatusEntry(200, Undefined)]
  /\ fsCallbacks' = [fsCallbacks EXCEPT ![p] =
       Append(@, [err |-> Null, item |-> p])]
  /\ fsPc' = [fsPc EXCEPT ![p] = "closed"]
  /\ UNCHANGED fsOthers

FsNext ==
  \/ \E p \in PutCalls : FsPut(p)
  \/ \E p \in PutCalls, err \in PutErrors : SourceError(p, err)
  \/ \E p \in PutCalls, err \in PutErrors, willClose \in BOOLEAN :
       WriteError(p, err, willClose)
  \/ \E p \in PutCalls : WriteClose(p)

FsSpec == FsInit /\ [][FsNext]_vars

\* A stream error occurred during put p.
StreamErrorIn(p) ==
  \E k \in 1..Len(fsCallbacks[p]) : fsCallbacks[p][k].err # Null

\* C35: each put invokes its callback at most once, and exactly once when
\* its streams are through; a reported success leaves status code 200; once
\* a stream error occurred the put reports failure and the status is and
\* stays code 500 with the error as message, whatever event follows.
C35_PutOutcome ==
  \A p \in PutCalls :
    /\ Len(fsCallbacks[p]) <= 1
    /\ fsPc[p] \in {"closed", "destroyed", "unpiped"} =>
         Len(fsCallbacks[p]) = 1
    /\ (fsCallbacks[p] # <<>> /\ ~StreamErrorIn(p)) =>
         fsStatus[p] = StatusEntry(200, Undefined)
    /\ StreamErrorIn(p) =>
         /\ fsStatus[p].code = 500
         /\ fsStatus[p].message = fsCallbacks[p][1].err
         /\ \A k \in 1..Len(fsCallbacks[p]) : fsCallbacks[p][k].err # Null

\* ------------------------------------------------ Swarm: the local peer
\* Swarm.initialize (Swarm.js:64-90) and updateLocalNode (118-122) on one
\* base directory, over several constructions (restarts of the process).
MaxRuns == 3
MaxUpdates == 2
Addresses == {"10.0.0.1", "10.0.0.2"}

LocInit ==
  /\ errorHandler = FALSE
  /\ devices = [d \in Devices |-> FS_DEVICE_ID]
  /\ index = [i \in Ids |-> 0]
  /\ SaveStart
  /\ IdStart
  /\ GetStart
  /\ NetStart
  /\ DevStart
  /\ ExtStart

\* The descriptor initialize writes when the directory has none:
\* JSON.stringify({address: "localhost", port: <random port>}).
NewDescriptor(num) ==
  [present |-> TRUE, id |-> NoUuid, port |-> randomPort(num),
   address |-> "localhost"]

\* Peer(rawPeer): id: peer.id || uuid.v4(), port: peer.port || <random port>
\* (the descriptor always has a port), address: peer.address || null.
Peer(rawPeer, fresh) ==
  [rawPeer EXCEPT !.id = IF rawPeer.id # NoUuid THEN rawPeer.id ELSE fresh]

\* new Swarm(baseDir): initialize writes the descriptor of the local peer
\* if there is none, then reads every descriptor into peerMap.
Construct(num) ==
  /\ Len(runs) < MaxRuns
  /\ localFile' = IF localFile.present THEN localFile ELSE NewDescriptor(num)
  /\ localNode' = Peer(localFile', uuids + 1)
  /\ uuids' = IF localFile'.id = NoUuid THEN uuids + 1 ELSE uuids
  /\ runs' = Append(runs, [id |-> localNode'.id, port |-> localNode'.port,
                           updates |-> 0])
  /\ UNCHANGED locOthers

\* updateLocalNode(address): the address of the local node is set and the
\* node is written to the descriptor, id included.
UpdateLocalNode(address) ==
  /\ localNode.present
  /\ runs[Len(runs)].updates < MaxUpdates
  /\ localNode' = [localNode EXCEPT !.address = address]
  /\ localFile' = localNode'
  /\ runs' = [runs EXCEPT ![Len(runs)].updates = @ + 1]
  /\ UNCHANGED uuids
  /\ UNCHANGED locOthers

LocNext ==
  \/ \E num \in RandomNums : Construct(num)
  \/ \E address \in Addresses : UpdateLocalNode(address)

LocSpec == LocInit /\ [][LocNext]_vars

\* C39: every construction of a Swarm on the directory yields a local node
\* with the id and the port of the first construction, with or without an
\* updateLocalNode in between.
C39_LocalIdentityStable ==
  \A k \in 1..Len(runs) :
    runs[k].id = runs[1].id /\ runs[k].port = runs[1].port

\* ============================================================== Gateway
\* Gateway (FileSystemDevice.js:508-1045) of one instance against one uPnP
\* device: openPort, listOpenPorts and closePort, one SOAP exchange per
\* step. The operations are called in series.
MaxGwOps == 2
GwProtocols == {"tcp", "udp"}
GwPorts == {80}
OPEN_DESCRIPTION == "desc"
GwDescriptions == {GW_DEFAULT_NAMESPACE, OPEN_DESCRIPTION, "foreign"}
GwClients == <<"10.0.0.1", "10.0.0.2">>
FOREIGN_CLIENT == "10.0.0.9"

\* A port mapping of the device; the device holds one mapping per protocol
\* and external port.
Mapping(proto, port, client, desc) ==
  [protocol |-> proto, port |-> port, client |-> client, description |-> desc]
SameKey(m, proto, port) == m.protocol = proto /\ m.port = port

\* The tables the device can hold when the instance is created: per protocol
\* a mapping made by someone else under any description, or none.
GwTables ==
  {<<>>}
  \cup {<<Mapping(pr, 80, FOREIGN_CLIENT, d)>> :
          pr \in GwProtocols, d \in GwDescriptions}
  \cup {<<Mapping(pr, 80, FOREIGN_CLIENT, d),
          Mapping(IF pr = "tcp" THEN "udp" ELSE "tcp", 80, FOREIGN_CLIENT, e)>> :
          pr \in GwProtocols, d \in GwDescriptions, e \in GwDescriptions}

\* createMessage writes a parameter as `data[paramName] || ""`: the number 0
\* becomes the empty string.
SoapNumber(n) == [empty |-> n = 0, value |-> n]

\* A SOAP request handed to sendSoapMessage.
GwRequest(action, proto, port, client, desc, i) ==
  [action |-> action, protocol |-> proto, port |-> port, client |-> client,
   description |-> desc, index |-> SoapNumber(i)]

\* Errors: none; the object translateErrorResponse makes of a SOAP fault;
\* its toError(), new Error(code + ":" + description); the error of a
\* request that got no answer, which has no toError.
NoError == [kind |-> "none", code |-> 0]
Fault(code) == [kind |-> "fault", code |-> code]
toError(err) == [kind |-> "Error", code |-> err.code]
Refused == [kind |-> "refused", code |-> 0]

\* SOAP fault codes of the device.
SPECIFIED_ARRAY_INDEX_INVALID == 713
NO_SUCH_ENTRY == 714
CONFLICT_IN_MAPPING_ENTRY == 718
INVALID_ARGS == 402
ACTION_FAILED == 501

\* Exceptions nothing catches.
INVALID_STATUS == "Invalid response status code"
NO_TO_ERROR == "TypeError: err.toError is not a function"

\* What the list callbacks get besides the error.
NoList == [given |-> FALSE, entries |-> <<>>]
List(entries) == [given |-> TRUE, entries |-> entries]

\* The ways an exchange can go: the device serves the request ("ok"); it
\* refuses to replace the mapping of another client ("reject"); it does not
\* accept an empty number ("strict"); it fails the action ("fault"); the
\* answer has a status other than 200 and 500 ("status"); the request gets
\* no answer ("refused").
GwAnswers == {"ok", "reject", "strict", "fault", "status", "refused"}

GwInit ==
  /\ errorHandler = FALSE
  /\ devices = [d \in Devices |-> FS_DEVICE_ID]
  /\ index = [i \in Ids |-> 0]
  /\ SaveStart
  /\ IdStart
  /\ GetStart
  /\ NetStart
  /\ DevStart
  /\ SwarmStart
  /\ MapStart
  /\ SrvStart
  /\ HttpStart
  /\ FsStart
  /\ LocStart
  /\ RdStart
  /\ gwNamespace \in {GW_DEFAULT_NAMESPACE, OPEN_DESCRIPTION}
  /\ gwAddresses \in {SubSeq(GwClients, 1, n) : n \in 0..Len(GwClients)}
  /\ gwTable \in GwTables
  /\ gwOps = 0
  /\ gwOp = NoGwOp
  /\ gwPc = "idle"
  /\ gwAddrQueue = <<>>
  /\ gwCloseQueue = <<>>
  /\ gwEntries = <<>>
  /\ gwRequests = <<>>
  /\ gwAnswers = <<>>
  /\ gwCallbacks = <<>>
  /\ gwFailure = Null

\* The request that waits for its answer.
PendingRequest == gwRequests[Len(gwRequests)]

\* The positions of the table that hold the mapping of a protocol and port.
Holding(table, proto, port) ==
  {i \in 1..Len(table) : SameKey(table[i], proto, port)}

\* The fault the device answers the pending request with, or 0: a rejected
\* replacement, an index it cannot read or that is past the last mapping, a
\* mapping to delete that it does not hold.
DeviceFault(ans) ==
  IF ans = "fault" THEN ACTION_FAILED
  ELSE IF ans = "reject" THEN CONFLICT_IN_MAPPING_ENTRY
  ELSE IF ans = "strict" THEN INVALID_ARGS
  ELSE IF PendingRequest.action = "GetGenericPortMappingEntry"
          /\ PendingRequest.index.value >= Len(gwTable)
    THEN SPECIFIED_ARRAY_INDEX_INVALID
  ELSE IF PendingRequest.action = "DeletePortMapping"
          /\ Holding(gwTable, PendingRequest.protocol, PendingRequest.port) = {}
    THEN NO_SUCH_ENTRY
  ELSE 0

\* sendSoapMessage: the error its callback gets for an answer.
SoapError(ans) ==
  IF ans = "refused" THEN Refused
  ELSE IF DeviceFault(ans) # 0 THEN Fault(DeviceFault(ans))
  ELSE NoError

\* The answer is one the device can give to the pending request.
Answerable(ans) ==
  /\ ans = "reject" =>
       /\ PendingRequest.action = "AddPortMapping"
       /\ \E i \in Holding(gwTable, PendingRequest.protocol, PendingRequest.port) :
            gwTable[i].client # PendingRequest.client
  /\ ans = "strict" =>
       /\ PendingRequest.action = "GetGenericPortMappingEntry"
       /\ PendingRequest.index.empty

\* The table of the device once it has served the pending request.
Served(table, req) ==
  IF req.action = "AddPortMapping"
    THEN LET m == Mapping(req.protocol, req.port, req.client, req.description)
         IN IF Holding(table, req.protocol, req.port) = {}
              THEN Append(table, m)
              ELSE [i \in 1..Len(table) |->
                      IF SameKey(table[i], req.protocol, req.port)
                        THEN m ELSE table[i]]
  ELSE IF req.action = "DeletePortMapping"
    THEN SelectSeq(table, LAMBDA m : ~SameKey(m, req.protocol, req.port))
  ELSE table

\* An operation starts: nothing of the operation before is left.
StartOp(kind, proto, port) ==
  /\ gwPc = "idle"
  /\ gwOps < MaxGwOps
  /\ gwOps' = gwOps + 1
  /\ gwOp' = [kind |-> kind, protocol |-> proto, port |-> port]
  /\ gwAnswers' = <<>>
  /\ gwEntries' = <<>>
  /\ UNCHANGED <<gwNamespace, gwAddresses, gwTable, gwFailure>>
  /\ UNCHANGED gwOthers

\* The AddPortMapping request of openPort for a local address.
AddPortMapping(proto, port, address) ==
  GwRequest("AddPortMapping", proto, port, address, OPEN_DESCRIPTION, 0)

\* openPort(protocol, port, callback): getLocalAddresses, then
\* addNextMapping with the first address; without an address the callback
\* is called at once.
OpenPort(proto, port) ==
  /\ StartOp("openPort", proto, port)
  /\ gwCloseQueue' = <<>>
  /\ IF gwAddresses = <<>>
       THEN /\ gwCallbacks' = <<[err |-> NoError, list |-> NoList]>>
            /\ gwRequests' = <<>>
            /\ gwAddrQueue' = <<>>
            /\ gwPc' = "idle"
       ELSE /\ gwRequests' = <<AddPortMapping(proto, port, Head(gwAddresses))>>
            /\ gwAddrQueue' = Tail(gwAddresses)
            /\ gwCallbacks' = <<>>
            /\ gwPc' = "adding"

\* listNext(index): the GetGenericPortMappingEntry request.
listNext(i) == GwRequest("GetGenericPortMappingEntry", Null, 0, Null, Null, i)

\* listOpenPorts(callback): listNext(0).
ListOpenPorts ==
  /\ StartOp("listOpenPorts", Null, 0)
  /\ gwRequests' = <<listNext(0)>>
  /\ gwCallbacks' = <<>>
  /\ gwPc' = "listing"
  /\ gwAddrQueue' = <<>>
  /\ gwCloseQueue' = <<>>

\* The private closePort(protocol, port, callback).
DeletePortMapping(proto, port) ==
  GwRequest("DeletePortMapping", proto, port, Null, Null, 0)

\* closePort(protocol, port, callback): with both arguments the one mapping
\* is deleted; without one of them the mappings are listed first. A port 0
\* stands for a missing port, Null for a missing protocol.
ClosePort(proto, port) ==
  /\ StartOp("closePort", proto, port)
  /\ gwCallbacks' = <<>>
  /\ gwAddrQueue' = <<>>
  /\ gwCloseQueue' = <<>>
  /\ IF proto # Null /\ port # 0
       THEN /\ gwRequests' = <<DeletePortMapping(proto, port)>>
            /\ gwPc' = "deleting"
       ELSE /\ gwRequests' = <<listNext(0)>>
            /\ gwPc' = "listing"

\* An answer arrives: what every exchange does with it. A status other than
\* 200 and 500 is thrown by the "end" listener of the response.
Exchange(ans) ==
  /\ gwFailure = Null
  /\ Answerable(ans)
  /\ gwAnswers' = Append(gwAnswers, ans)
  /\ gwTable' = IF ans = "ok" /\ DeviceFault(ans) = 0
                  THEN Served(gwTable, PendingRequest) ELSE gwTable
  /\ UNCHANGED <<gwNamespace, gwAddresses, gwOps, gwOp>>
  /\ UNCHANGED gwOthers

\* callback(err && err.toError(), res) and callback(err.toError(), null): the
\* error of a request without answer has no toError.
CallbackToError(err, list) ==
  IF err = Refused
    THEN /\ gwFailure' = NO_TO_ERROR
         /\ gwPc' = "failed"
         /\ gwCallbacks' = gwCallbacks
    ELSE /\ gwCallbacks' = Append(gwCallbacks,
              [err |-> IF err = NoError THEN NoError ELSE toError(err),
               list |-> list])
         /\ gwPc' = "idle"
         /\ gwFailure' = gwFailure

\* The exchange ends with an exception.
Throws(failure) ==
  /\ gwFailure' = failure
  /\ gwPc' = "failed"
  /\ UNCHANGED <<gwCallbacks, gwRequests, gwAddrQueue, gwCloseQueue, gwEntries>>

\* addNextMapping(address, err, res) as the callback of an AddPortMapping: the
\* callback is called on an error or after the last address, else the next
\* address is mapped.
AddAnswer(ans) ==
  /\ gwPc = "adding"
  /\ Exchange(ans)
  /\ IF ans = "status"
       THEN Throws(INVALID_STATUS)
     ELSE IF gwAddrQueue = <<>> \/ SoapError(ans) # NoError
       THEN /\ CallbackToError(SoapError(ans), NoList)
            /\ UNCHANGED <<gwRequests, gwAddrQueue, gwCloseQueue, gwEntries>>
       ELSE /\ gwRequests' = Append(gwRequests,
                 AddPortMapping(gwOp.protocol, gwOp.port, Head(gwAddrQueue)))
            /\ gwAddrQueue' = Tail(gwAddrQueue)
            /\ UNCHANGED <<gwPc, gwCallbacks, gwFailure, gwCloseQueue,
                           gwEntries>>

\* listOpenPorts keeps an entry when description === NAMESPACE.
Listed(m) == m.description = gwNamespace

\* closeNext(mapping, err): the callback is called on an error or after the
\* last mapping, else the next mapping is deleted.
closeNext(queue, err) ==
  IF err # NoError \/ queue = <<>>
    THEN /\ gwCallbacks' = Append(gwCallbacks, [err |-> err, list |-> NoList])
         /\ gwPc' = "idle"
         /\ gwCloseQueue' = queue
         /\ gwRequests' = gwRequests
    ELSE /\ gwRequests' = Append(gwRequests,
              DeletePortMapping(Head(queue).protocol, Head(queue).port))
         /\ gwCloseQueue' = Tail(queue)
         /\ gwPc' = "deleting"
         /\ gwCallbacks' = gwCallbacks

\* The callback closePort gives to listOpenPorts: the error is handed on,
\* else the entries, of the protocol if one was given, are deleted one after
\* another.
CloseListed(err, entries) ==
  IF err # NoError
    THEN /\ gwCallbacks' = Append(gwCallbacks, [err |-> err, list |-> NoList])
         /\ gwPc' = "idle"
         /\ UNCHANGED <<gwCloseQueue, gwRequests>>
    ELSE closeNext(IF gwOp.protocol # Null
                     THEN SelectSeq(entries,
                            LAMBDA m : m.protocol = gwOp.protocol)
                     ELSE entries, NoError)

\* The callback of listNext(index): fault 713 ends the listing with the
\* entries, another error ends it with err.toError(), an entry is kept if it
\* is Listed and the next index is asked for.
GetAnswer(ans) ==
  /\ gwPc = "listing"
  /\ Exchange(ans)
  /\ gwAddrQueue' = gwAddrQueue
  /\ IF ans = "status"
       THEN Throws(INVALID_STATUS)
     ELSE IF SoapError(ans) = Refused
       THEN Throws(NO_TO_ERROR)
     ELSE IF SoapError(ans) # NoError
       THEN LET end == SoapError(ans).code = SPECIFIED_ARRAY_INDEX_INVALID
                err == IF end THEN NoError ELSE toError(SoapError(ans))
            IN /\ gwEntries' = gwEntries
               /\ gwFailure' = gwFailure
               /\ IF gwOp.kind = "listOpenPorts"
                    THEN /\ gwCallbacks' = Append(gwCallbacks,
                              [err |-> err,
                               list |-> IF end THEN List(gwEntries) ELSE NoList])
                         /\ gwPc' = "idle"
                         /\ UNCHANGED <<gwRequests, gwCloseQueue>>
                    ELSE CloseListed(err, gwEntries)
       ELSE LET m == gwTable[PendingRequest.index.value + 1] IN
            /\ gwEntries' = IF Listed(m) THEN Append(gwEntries, m)
                            ELSE gwEntries
            /\ gwRequests' = Append(gwRequests,
                                    listNext(PendingRequest.index.value + 1))
            /\ UNCHANGED <<gwPc, gwCallbacks, gwFailure, gwCloseQueue>>

\* The callback of a DeletePortMapping: callback(err) of the private
\* closePort, which is the caller's callback or closeNext.
DeleteAnswer(ans) ==
  /\ gwPc = "deleting"
  /\ Exchange(ans)
  /\ UNCHANGED <<gwAddrQueue, gwEntries>>
  /\ IF ans = "status"
       THEN /\ gwFailure' = INVALID_STATUS
            /\ gwPc' = "failed"
            /\ UNCHANGED <<gwCallbacks, gwRequests, gwCloseQueue>>
       ELSE /\ closeNext(gwCloseQueue, SoapError(ans))
            /\ gwFailure' = gwFailure

GwNext ==
  \/ \E proto \in GwProtocols, port \in GwPorts : OpenPort(proto, port)
  \/ ListOpenPorts
  \/ \E proto \in GwProtocols \cup {Null}, port \in GwPorts \cup {0} :
       ClosePort(proto, port)
  \/ \E ans \in GwAnswers : AddAnswer(ans)
  \/ \E ans \in GwAnswers : GetAnswer(ans)
  \/ \E ans \in GwAnswers : DeleteAnswer(ans)

GwSpec == GwInit /\ [][GwNext]_vars

\* ------------------------------------------------------- claims on GwSpec
\* The operation called last has ended with a callback.
Ended(kind) == gwOp.kind = kind /\ gwPc = "idle"

\* The device served every request of the operation, apart from requests
\* answered the way `ans` names.
ServedBut(ans) ==
  \A k \in 1..Len(gwAnswers) : gwAnswers[k] \in {"ok", ans}

\* The mappings of the device listOpenPorts is to return, in index order.
OwnMappings == SelectSeq(gwTable, Listed)

\* C31: listOpenPorts asks for the indexes 0, 1, ... in order, each request
\* carrying its index; against a device that holds N mappings it ends after
\* index N with one callback that gets the mappings whose description is
\* the namespace of the instance, in index order; a failed action ends it
\* with one callback that gets an error with the code and no list.
C31_ListOpenPorts ==
  gwOp.kind = "listOpenPorts" =>
    /\ \A k \in 1..Len(gwRequests) :
         /\ gwRequests[k].action = "GetGenericPortMappingEntry"
         /\ gwRequests[k].index = [empty |-> FALSE, value |-> k - 1]
    /\ gwPc = "listing" => gwCallbacks = <<>>
    /\ (ServedBut("strict") /\ gwPc # "listing") =>
         /\ Len(gwRequests) = Len(gwTable) + 1
         /\ gwCallbacks = <<[err |-> NoError, list |-> List(OwnMappings)]>>
    /\ (ServedBut("fault") /\ ~ServedBut("ok") /\ gwPc # "listing") =>
         gwCallbacks = <<[err |-> toError(Fault(ACTION_FAILED)),
                          list |-> NoList]>>

\* C32: when openPort has succeeded, one AddPortMapping was issued per local
\* address, in order, each for the port as external and internal port and
\* with the namespace of the instance as description, and the device holds
\* a mapping of the port for each address that listOpenPorts returns.
C32_OpenListRoundTrip ==
  (Ended("openPort") /\ gwCallbacks = <<[err |-> NoError, list |-> NoList]>>)
    =>
    /\ Len(gwRequests) = Len(gwAddresses)
    /\ \A k \in 1..Len(gwRequests) :
         gwRequests[k] = GwRequest("AddPortMapping", gwOp.protocol, gwOp.port,
                                   gwAddresses[k], gwNamespace, 0)
    /\ \A k \in 1..Len(gwAddresses) :
         \E i \in 1..Len(OwnMappings) :
           OwnMappings[i] = Mapping(gwOp.protocol, gwOp.port, gwAddresses[k],
                                    gwNamespace)

\* The mappings closePort(protocol, port) is to delete.
ToClose(m) ==
  IF gwOp'.protocol # Null /\ gwOp'.port # 0
    THEN SameKey(m, gwOp'.protocol, gwOp'.port)
    ELSE /\ m.description = gwNamespace
         /\ gwOp'.protocol # Null => m.protocol = gwOp'.protocol

\* C33: a closePort deletes no mapping but the one of its protocol and port,
\* or, with an argument missing, those of the namespace of the instance (and
\* of the protocol, if given); it never ends without its callback, which is
\* invoked once; and when the callback gets no error none of those mappings
\* is left.
C33_ClosePortFrame ==
  /\ [](gwOp.kind = "closePort" =>
          /\ gwPc # "failed"
          /\ Len(gwCallbacks) <= 1
          /\ gwPc = "idle" => Len(gwCallbacks) = 1)
  /\ [][gwOp'.kind = "closePort" =>
          /\ \A i \in 1..Len(gwTable) :
               (\A j \in 1..Len(gwTable') : gwTable'[j] # gwTable[i]) =>
                 ToClose(gwTable[i])
          /\ (gwPc' = "idle" /\ gwCallbacks' = <<[err |-> NoError,
                                                  list |-> NoList]>>) =>
               \A j \in 1..Len(gwTable') : ~ToClose(gwTable'[j])]_vars

\* ---------------------------------------------------------------------------
\* Gateway.ready (FileSystemDevice.js:634-686, 858-909)
\* ---------------------------------------------------------------------------

MaxServices == 2

WANIP == "urn:schemas-upnp-org:service:WANIPConnection:1"

OTHER_SERVICE == "urn:schemas-upnp-org:service:WANCommonInterfaceConfig:1"

WANIP_NOT_FOUND == "WANIP device not found."

CANNOT_CONNECT == "Cannot connect to gateway"

ESOCKET == "ESOCKET"

ECONNREFUSED == "ECONNREFUSED"

\* the statuses the gateway answers the request for its description with
RdStatuses == {200, 404}

\* what childNamed returns when no child has the name
NoNode == XmlNode(Null, Null, <<>>)

\* the services a description holds: a WANIPConnection with its controlURL,
\* a WANIPConnection without controlURL, another service with its controlURL
ServiceKinds == {"wanip", "bare", "other"}

Service(kind) ==
  XmlNode("service", "",
    <<XmlNode("serviceType", IF kind = "other" THEN OTHER_SERVICE ELSE WANIP,
              <<>>)>>
    \o (IF kind = "bare" THEN <<>>
        ELSE <<XmlNode("controlURL", "/ctl/" \o kind, <<>>)>>))

ServiceLists ==
  UNION {[1..n -> ServiceKinds] : n \in 0..MaxServices}

ServiceList(kinds) ==
  XmlNode("serviceList", "", [i \in 1..Len(kinds) |-> Service(kinds[i])])

\* a root device with its services and one embedded device with its own
Description(rootKinds, embeddedKinds) ==
  XmlNode("root", "",
    <<XmlNode("device", "",
        <<ServiceList(rootKinds),
          XmlNode("deviceList", "",
            <<XmlNode("device", "", <<ServiceList(embeddedKinds)>>)>>)>>)>>)

Descriptions ==
  {Description(r, e) : r \in ServiceLists, e \in ServiceLists}

childNamed(node, name) ==
  LET named == {i \in 1..Len(node.children) : node.children[i].name = name}
  IN IF named = {} THEN NoNode
     ELSE node.children[CHOOSE i \in named : \A j \in named : i <= j]

RECURSIVE findNext(_)
\* the calls of the callback the walk from node makes, in order
findNext(node) ==
  IF node = NoNode
  THEN <<[err |-> WANIP_NOT_FOUND, controlUrl |-> Null]>>
  ELSE LET controlUrl == childNamed(node, "controlURL")
           visit[i \in 0..Len(node.children)] ==
             IF i = 0 THEN <<>>
             ELSE LET child == node.children[i]
                  IN visit[i - 1] \o
                     (IF /\ child.name = "serviceType"
                         /\ child.val = WANIP
                         /\ controlUrl # NoNode
                      THEN <<[err |-> Null, controlUrl |-> controlUrl.val]>>
                      ELSE findNext(child))
       IN visit[Len(node.children)]

findWanIpControlUrl(responseXml) ==
  findNext(responseXml)

RdInit ==
  /\ errorHandler = FALSE
  /\ devices = [d \in Devices |-> FS_DEVICE_ID]
  /\ index = [i \in Ids |-> 0]
  /\ SaveStart
  /\ IdStart
  /\ GetStart
  /\ NetStart
  /\ DevStart
  /\ SwarmStart
  /\ MapStart
  /\ SrvStart
  /\ HttpStart
  /\ FsStart
  /\ LocStart
  /\ GwStart
  /\ rdTree \in Descriptions
  /\ rdPc = "idle"
  /\ rdCallbacks = <<>>
  /\ rdControlUrl = Null

\* ready(callback): initializeGateway sends the SSDP search
Ready ==
  /\ rdPc = "idle"
  /\ rdPc' = "searching"
  /\ UNCHANGED <<rdTree, rdCallbacks, rdControlUrl>>
  /\ UNCHANGED rdOthers

\* a gateway answers discovery: the location is handed on, the socket closed
\* and the description requested
SsdpResponse ==
  /\ rdPc = "searching"
  /\ rdPc' = "fetching"
  /\ UNCHANGED <<rdTree, rdCallbacks, rdControlUrl>>
  /\ UNCHANGED rdOthers

\* the socket fails before any answer
SsdpError ==
  /\ rdPc = "searching"
  /\ rdPc' = "failed"
  /\ rdCallbacks' = Append(rdCallbacks, ESOCKET)
  /\ UNCHANGED <<rdTree, rdControlUrl>>
  /\ UNCHANGED rdOthers

\* the response of http.get arrives
HttpResponse(statusCode) ==
  /\ rdPc = "fetching"
  /\ IF statusCode # 200
     THEN /\ rdPc' = "failed"
          /\ rdCallbacks' = Append(rdCallbacks, CANNOT_CONNECT)
     ELSE /\ rdPc' = "receiving"
          /\ UNCHANGED rdCallbacks
  /\ UNCHANGED <<rdTree, rdControlUrl>>
  /\ UNCHANGED rdOthers

\* http.get fails
HttpError ==
  /\ rdPc = "fetching"
  /\ rdPc' = "failed"
  /\ rdCallbacks' = Append(rdCallbacks, ECONNREFUSED)
  /\ UNCHANGED <<rdTree, rdControlUrl>>
  /\ UNCHANGED rdOthers

\* "end" of the response: the description is walked, and each call of the
\* callback of findWanIpControlUrl sets addressInfo and calls back
DescriptionEnd ==
  /\ rdPc = "receiving"
  /\ LET found == findWanIpControlUrl(rdTree)
         urls == SelectSeq(found, LAMBDA f : f.err = Null)
     IN /\ rdCallbacks' = rdCallbacks \o [i \in 1..Len(found) |-> found[i].err]
        /\ rdControlUrl' = IF urls = <<>> THEN rdControlUrl
                           ELSE urls[Len(urls)].controlUrl
  /\ rdPc' = "walked"
  /\ UNCHANGED rdTree
  /\ UNCHANGED rdOthers

RdNext ==
  \/ Ready
  \/ SsdpResponse
  \/ SsdpError
  \/ \E statusCode \in RdStatuses : HttpResponse(statusCode)
  \/ HttpError
  \/ DescriptionEnd

RdSpec == RdInit /\ [][RdNext]_vars

RECURSIVE Elements(_)
\* the elements of a description
Elements(node) ==
  {node} \cup UNION {Elements(node.children[i]) : i \in 1..Len(node.children)}

\* the description holds a WANIPConnection:1 serviceType with a sibling
\* controlURL
HasWanIp(xml) ==
  \E node \in Elements(xml) :
    /\ \E i \in 1..Len(node.children) :
         /\ node.children[i].name = "serviceType"
         /\ node.children[i].val = WANIP
    /\ \E i \in 1..Len(node.children) : node.children[i].name = "controlURL"

\* C40: once a gateway has answered discovery and its description has been
\* read, the callback of ready has been invoked exactly once: with no error
\* when the description holds a WANIPConnection:1 serviceType with a sibling
\* controlURL (however many), with "WANIP device not found." when it holds
\* none; a failure on the way is handed to the callback once as well.
C40_ReadyCompletesOnce ==
  /\ rdPc \in {"walked", "failed"} => Len(rdCallbacks) = 1
  /\ rdPc = "walked" =>
       /\ rdCallbacks # <<>>
       /\ rdCallbacks[1] = IF HasWanIp(rdTree) THEN Null ELSE WANIP_NOT_FOUND
====
